---- MODULE Spec2Model ----
(***************************************************************************)
(* Portfolio CRUD backend (Express routers over a document store and a     *)
(* media host).  Route handlers are modelled as operators from a request   *)
(* and the current collection to the handler's outcome; the actions serve  *)
(* one request each.                                                       *)
(*                                                                         *)
(* Strings that the code parses are sequences of one-character strings     *)
(* over the alphabet Chars, so that trimming, splitting, bracket and quote *)
(* stripping, lower-casing and JSON.parse are computed, not assumed.       *)
(***************************************************************************)
EXTENDS Integers, Sequences, FiniteSets, TLC

\* ------------------------------------------------------------------ bounds
\* longest request string that is enumerated
MaxLen == 4
\* documents the store ever creates (ObjectIds handed out)
MaxDocs == 1
\* files the media host ever accepts (public_ids handed out)
MaxUploads == 2
MaxLinks == 2

VARIABLES
  projects,        \* Project collection: _id -> document
  experiences,     \* Experience collection
  skills,          \* Skill collection
  certifications,  \* Certification collection
  socials,         \* Social collection
  users,           \* User collection
  contacts,        \* Contact collection
  nextId,          \* the next ObjectId the store hands out
  uploads,         \* uploads the media host has accepted; the next public_id is uploads + 1
  alive,           \* the server process is running
  resp,            \* the request served last and what was answered to it
  probe            \* the list input under test and what POST and PUT stored for it

vars == <<projects, experiences, skills, certifications, socials, users, contacts,
          nextId, uploads, alive, resp, probe>>

\* ------------------------------------------------------------ text helpers
\* The alphabet of request strings: a lower-case letter, an upper-case
\* letter, white space, the item separator, a quote, and the brackets.
Chars == {"a", "B", " ", ",", "'", "[", "]"}

RECURSIVE StringsUpTo(_)
StringsUpTo(n) ==
  IF n = 0 THEN {<<>>}
  ELSE LET shorter == StringsUpTo(n - 1)
       IN  shorter \cup {Append(s, c) : s \in {t \in shorter : Len(t) = n - 1}, c \in Chars}

Strings == StringsUpTo(MaxLen)

IsSpace(c) == c = " "
IsQuote(c) == c \in {"'", "\""}

Front(s) == SubSeq(s, 1, Len(s) - 1)

\* String.prototype.trim
RECURSIVE TrimLeft(_)
TrimLeft(s) == IF s # <<>> /\ IsSpace(Head(s)) THEN TrimLeft(Tail(s)) ELSE s

RECURSIVE TrimRight(_)
TrimRight(s) == IF s # <<>> /\ IsSpace(s[Len(s)]) THEN TrimRight(Front(s)) ELSE s

Trim(s) == TrimRight(TrimLeft(s))

\* String.prototype.split(',')
RECURSIVE SplitFrom(_, _, _)
SplitFrom(s, i, cur) ==
  IF i > Len(s) THEN <<cur>>
  ELSE IF s[i] = "," THEN <<cur>> \o SplitFrom(s, i + 1, <<>>)
  ELSE SplitFrom(s, i + 1, Append(cur, s[i]))

SplitComma(s) == SplitFrom(s, 1, <<>>)

\* value.replace(/^\[|\]$/g, '')
StripBrackets(s) ==
  LET s1 == IF s # <<>> /\ Head(s) = "[" THEN Tail(s) ELSE s
  IN  IF s1 # <<>> /\ s1[Len(s1)] = "]" THEN Front(s1) ELSE s1

\* item.replace(/^['"]|['"]$/g, '')
StripQuotes(s) ==
  LET s1 == IF s # <<>> /\ IsQuote(Head(s)) THEN Tail(s) ELSE s
  IN  IF s1 # <<>> /\ IsQuote(s1[Len(s1)]) THEN Front(s1) ELSE s1

\* String.prototype.toLowerCase
LowerChar(c) == IF c = "B" THEN "b" ELSE c
ToLower(s) == [i \in 1..Len(s) |-> LowerChar(s[i])]

\* item.replace(/\s+/g, '-'): every run of white space becomes one '-'
RECURSIVE DashRuns(_, _)
DashRuns(s, inRun) ==
  IF s = <<>> THEN <<>>
  ELSE IF IsSpace(Head(s))
       THEN (IF inRun THEN <<>> ELSE <<"-">>) \o DashRuns(Tail(s), TRUE)
       ELSE <<Head(s)>> \o DashRuns(Tail(s), FALSE)

\* item.toLowerCase().replace(/\s+/g, '-')
KeyOf(item) == DashRuns(ToLower(item), FALSE)

\* Array.prototype.filter(Boolean) on strings: drops the empty ones
FilterNonEmpty(items) == SelectSeq(items, LAMBDA x : x # <<>>)

MapSeq(f(_), s) == [i \in 1..Len(s) |-> f(s[i])]

\* data.split(',').map(item => item.trim()).filter(Boolean)
PlainItems(s) == FilterNonEmpty(MapSeq(Trim, SplitComma(s)))

\* value.trim().replace(/^\[|\]$/g, '').split(',')
\*   .map(item => item.trim().replace(/^['"]|['"]$/g, '')).filter(Boolean)
CleanItem(item) == StripQuotes(Trim(item))
CleanItems(s) == FilterNonEmpty(MapSeq(CleanItem, SplitComma(StripBrackets(Trim(s)))))

\* ---------------------------------------------------------------- JSON.parse
\* JSON.parse on a string over Chars.  No letter of Chars starts a JSON
\* literal and the quote of Chars is not JSON's string quote, so the JSON
\* texts over Chars are the arrays whose elements are arrays, with white
\* space between the tokens; every other string makes JSON.parse throw.
\* The result is [ok, len]: ok is FALSE when JSON.parse throws, len is the
\* length of the parsed (top-level) array.
RECURSIVE SkipWs(_, _)
SkipWs(s, i) == IF i <= Len(s) /\ IsSpace(s[i]) THEN SkipWs(s, i + 1) ELSE i

At(s, i) == IF i >= 1 /\ i <= Len(s) THEN s[i] ELSE "$"

ParseFail == [ok |-> FALSE, next |-> 0, len |-> 0]

RECURSIVE ParseArray(_, _), ParseElements(_, _, _)
\* s[i] = "[" : the array that starts at i
ParseArray(s, i) ==
  LET j == SkipWs(s, i + 1)
  IN  IF At(s, j) = "]" THEN [ok |-> TRUE, next |-> j + 1, len |-> 0]
      ELSE ParseElements(s, j, 0)

\* the elements from i on, n of them already read; white space before i is skipped
ParseElements(s, i, n) ==
  IF At(s, i) # "[" THEN ParseFail
  ELSE LET e == ParseArray(s, i)
           k == SkipWs(s, e.next)
       IN  IF ~e.ok THEN ParseFail
           ELSE IF At(s, k) = "]" THEN [ok |-> TRUE, next |-> k + 1, len |-> n + 1]
           ELSE IF At(s, k) = "," THEN ParseElements(s, SkipWs(s, k + 1), n + 1)
           ELSE ParseFail

JsonParse(s) ==
  LET i == SkipWs(s, 1)
      r == IF At(s, i) = "[" THEN ParseArray(s, i) ELSE ParseFail
  IN  IF r.ok /\ SkipWs(s, r.next) = Len(s) + 1
      THEN [ok |-> TRUE, len |-> r.len]
      ELSE [ok |-> FALSE, len |-> 0]

\* -------------------------------------------------------------- body values
\* A value of a request body field that may be a list: absent (undefined),
\* a string, or an array of items.  An item is an object with the fields
\* key, name and title (<<>> for a field the object lacks), or, for the
\* elements JSON.parse yields over Chars, a nested array.
Undef == [t |-> "undef", s |-> <<>>, a |-> <<>>]
StrVal(s) == [t |-> "str", s |-> s, a |-> <<>>]
ArrVal(a) == [t |-> "arr", s |-> <<>>, a |-> a]

Obj(key, name, title) == [kind |-> "obj", key |-> key, name |-> name, title |-> title]
NestedArr == [kind |-> "arr", key |-> <<>>, name |-> <<>>, title |-> <<>>]

\* the array JSON.parse returned
ParsedArray(n) == [i \in 1..n |-> NestedArr]

\* a legacy links object: its entries in Object.entries order
ObjVal(entries) == [t |-> "obj", s |-> <<>>, a |-> entries]

\* JavaScript truthiness of a body value: undefined and '' are falsy
Truthy(v) == v.t \in {"arr", "obj"} \/ (v.t = "str" /\ v.s # <<>>)

\* ------------------------------------------------- projects.js: simplifyData
\* item of the comma-separated fallback: { key, name, icon, category, isActive }
SimpleItem(item) == Obj(KeyOf(item), item, <<>>)

simplifyData(data) ==
  IF ~Truthy(data) THEN <<>>
  ELSE IF data.t = "arr" THEN data.a
  ELSE LET p == JsonParse(data.s)
       IN  IF p.ok THEN ParsedArray(p.len)
           ELSE MapSeq(SimpleItem, PlainItems(data.s))

\* ------------------------------------- projects.js: the list validators
\* body('techStack').custom / body('features').custom of POST /api/projects
\* (the two validators are the same code)
ListValidPost(value) ==
  IF value.t = "arr" THEN TRUE
  ELSE IF value.t = "str" /\ JsonParse(value.s).ok THEN JsonParse(value.s).len >= 1
  ELSE IF value.t = "str" THEN Len(CleanItems(value.s)) >= 1
  ELSE FALSE

\* body('techStack').optional().custom / body('features').optional().custom
\* of PUT /api/projects/:id
ListValidPut(value) ==
  IF value.t = "undef" THEN TRUE
  ELSE IF ~Truthy(value) THEN TRUE
  ELSE IF value.t = "arr" THEN Len(value.a) >= 1
  ELSE IF JsonParse(value.s).ok THEN JsonParse(value.s).len >= 1
  ELSE Len(CleanItems(value.s)) >= 1

\* ------------------------------ projects.js: PUT's techStack/features parsing
\* { key, name, icon, color, category, version, isActive }
PutTechItem(item) == Obj(KeyOf(item), item, <<>>)
\* { key, title, description, icon, category, isHighlighted, isActive }
PutFeatureItem(item) == Obj(KeyOf(item), <<>>, item)

\* parsedTechStack of PUT (req.body.techStack is truthy)
PutParseTechStack(value) ==
  IF value.t = "arr" THEN value.a
  ELSE LET p == JsonParse(value.s)
       IN  IF p.ok THEN ParsedArray(p.len)
           ELSE MapSeq(PutTechItem, CleanItems(value.s))

\* parsedFeatures of PUT (req.body.features is truthy)
PutParseFeatures(value) ==
  IF value.t = "arr" THEN value.a
  ELSE LET p == JsonParse(value.s)
       IN  IF p.ok THEN ParsedArray(p.len)
           ELSE MapSeq(PutFeatureItem, CleanItems(value.s))

\* ------------------------------------------- Project schema: the sub-documents
\* A list the schema casts to an array of sub-documents: every element must
\* be an object, and the required fields must be non-empty.
TechStackCasts(items) ==
  \A i \in 1..Len(items) :
     items[i].kind = "obj" /\ items[i].key # <<>> /\ items[i].name # <<>>

FeaturesCast(items) ==
  \A i \in 1..Len(items) :
     items[i].kind = "obj" /\ items[i].key # <<>> /\ items[i].title # <<>>

\* the stored sub-documents: the schema keeps its own fields only
TechDoc(item) == [key |-> item.key, label |-> item.name]
FeatureDoc(item) == [key |-> item.key, label |-> item.title]

\* ------------------------------------------------ projects.js: links parsing
\* The text of a link's key or url: the text without the white space around
\* it, and whether white space surrounds it.
Txt(s, pad) == [s |-> s, pad |-> pad]
\* String.prototype.trim / the schema's trim: true
TrimTxt(t) == Txt(t.s, FALSE)

\* projectSchema.links.key enum
LinkKeyEnum ==
  {"github", "demo", "article", "store", "appStore", "playStore", "website",
   "documentation", "video", "blog"}

\* an element of a links array: { key, url, icon } (icon <<>> when it is absent)
Link(key, url, icon) == [kind |-> "link", key |-> key, url |-> url, icon |-> icon]

\* the mapping without the icon rule
LegacyLinkPlain(entry) == Link(entry.key, entry.url, <<"external-link">>)

\* Object.entries(links).map(([key, url]) => ({ key, url, ...,
\*   icon: key === 'github' ? 'github' : 'external-link', isActive: true }))
LegacyLink(entry) ==
  Link(entry.key, entry.url,
       <<IF entry.key = Txt("github", FALSE) THEN "github" ELSE "external-link">>)

\* an element the schema cannot cast to a link sub-document
NotALink == [kind |-> "arr", key |-> Txt("", FALSE), url |-> Txt("", FALSE), icon |-> <<>>]

\* parsedLinks of POST (links is truthy)
PostParseLinks(links) ==
  IF links.t = "arr" THEN links.a
  ELSE IF links.t = "obj" THEN MapSeq(LegacyLink, links.a)
  ELSE LET p == JsonParse(links.s)
       \* catch (e) { console.error(...) }: parsedLinks stays []
       IN  IF p.ok THEN [i \in 1..p.len |-> NotALink] ELSE <<>>

\* updateData.links of PUT (req.body.links is truthy); when JSON.parse throws
\* updateData.links stays the string of req.body
PutParseLinks(links) ==
  IF links.t = "arr" THEN links.a
  ELSE IF links.t = "obj" THEN MapSeq(LegacyLink, links.a)
  ELSE LET p == JsonParse(links.s)
       IN  IF p.ok THEN [i \in 1..p.len |-> NotALink] ELSE <<NotALink>>

\* projectSchema.links: key is trimmed, required and of the enum; url is
\* trimmed and required
LinksCast(links) ==
  \A i \in 1..Len(links) :
     /\ links[i].kind = "link"
     /\ links[i].key.s \in LinkKeyEnum
     /\ links[i].url.s # ""

\* the stored sub-document: key and url trimmed, icon defaults to 'external-link'
LinkDoc(link) ==
  [key |-> TrimTxt(link.key), url |-> TrimTxt(link.url),
   icon |-> IF link.icon = <<>> THEN "external-link" ELSE link.icon[1]]

\* ------------------------------------------------------- requests, outcomes
\* A scalar body field is <<>> when the request lacks it and <<v>> when the
\* request carries the value v.
Absent == <<>>
Has(body, f) == body[f] # Absent
FieldsOf(body) == {f \in DOMAIN body : Has(body, f)}

\* the :id of a request to a collection: the _id of one of its documents,
\* or 0, an ObjectId no document has
IdsOf(coll) == DOMAIN coll \cup {0}
\* a path parameter that is no ObjectId, such as 'order': findById throws a
\* CastError on it
NotAnObjectId == -1
\* public_ids of the media host
Pids == 1..MaxUploads

\* What the middleware chain of a route did: the collection it leaves, the
\* responses it sent (in order), whether an exception was raised in the
\* handler's try block, the number of files it uploaded to the media host,
\* the public_ids whose deletion it asked of the media host and those for
\* which that call threw, the number of contact documents in the response
\* body, what became of the notification email, and the documents in the
\* response body of a public read.
Out(coll, status) ==
  [coll |-> coll, sent |-> <<status>>, threw |-> FALSE,
   uploaded |-> 0, tried |-> {}, failed |-> {}, data |-> 0, mail |-> "skipped",
   docs |-> {}]

\* an exception raised before any response was sent
Throw(coll) ==
  [coll |-> coll, sent |-> <<>>, threw |-> TRUE,
   uploaded |-> 0, tried |-> {}, failed |-> {}, data |-> 0, mail |-> "skipped",
   docs |-> {}]

\* a handler without its catch block: the exception leaves the handler
TryCatchUncaught(out) == out

\* catch (error) { console.error(...); res.status(500).json({ success: false, ... }) }
TryCatch(out) ==
  IF out.threw THEN [out EXCEPT !.sent = Append(@, 500)] ELSE out

\* middleware/auth.js protect: a request without a valid token is answered
\* 401 and the rest of the chain does not run
Protect(req, coll, out) ==
  IF req.auth THEN out ELSE Out(coll, 401)

\* findByIdAndUpdate(id, updateData): $set of the fields updateData carries
SetFields(doc, updateData) ==
  [f \in DOMAIN doc |->
     IF f \in DOMAIN updateData /\ Has(updateData, f) THEN updateData[f][1]
     ELSE doc[f]]

\* collection with the document of id removed
Without(coll, id) == [i \in DOMAIN coll \ {id} |-> coll[i]]
\* collection with doc stored under id
With(coll, id, doc) == [i \in DOMAIN coll \cup {id} |-> IF i = id THEN doc ELSE coll[i]]

Empty == [i \in {} |-> 0]

\* isLength({ min: 1 }) after trim(): an absent field is '' to the validator
NonEmptyField(body, f) == Has(body, f) /\ body[f][1] # ""
\* optional(): validated only when the request carries the field
OptionalNonEmpty(body, f) == ~Has(body, f) \/ body[f][1] # ""

\* A flag arrives as a JSON boolean or as the string 'true' / 'false'
BoolInputs == [json : BOOLEAN, val : BOOLEAN]
FlagInputs == {Absent} \cup {<<b>> : b \in BoolInputs}

\* The schema's cast of a Boolean path: true and 'true' are stored as true,
\* false and 'false' as false
CastBoolean(b) == b.val
\* the flag of updateData as findByIdAndUpdate stores it
CastFlag(flag) == IF flag = Absent THEN Absent ELSE <<CastBoolean(flag[1])>>

\* ---------------------------------------------------------------- skills.js
SkillBodies == [name : {Absent, <<"">>, <<"s1">>, <<"s2">>},
                level : {Absent, <<0>>, <<50>>, <<90>>}]

\* the fields of a skill body other than name and level: category, the
\* amount of an update operator { $inc: { level: amount } }, and isPublished
NoSkillRest == [category |-> Absent, inc |-> Absent, isPublished |-> Absent]
EmptySkillBody == [name |-> Absent, level |-> Absent] @@ NoSkillRest
SkillPostBodies ==
  {core @@ [NoSkillRest EXCEPT !.category = <<"Other">>] : core \in SkillBodies}
    \cup {EmptySkillBody}
SkillPutBodies == {core @@ NoSkillRest : core \in SkillBodies}

\* isInt({ min: 1, max: 100 })
LevelValid(n) == n >= 1 /\ n <= 100

\* isIn(['Languages', 'Frameworks', 'Tools', 'Databases', 'Other'])
SkillCategories == {"Languages", "Frameworks", "Tools", "Databases", "Other"}

\* router.post('/', protect, [...validators], handler)
PostSkill(coll, req, id) ==
  TryCatch(
    IF ~(NonEmptyField(req.body, "name")
         /\ Has(req.body, "category") /\ req.body.category[1] \in SkillCategories
         /\ Has(req.body, "level") /\ LevelValid(req.body.level[1]))
    THEN Out(coll, 400)
    ELSE IF req.dbFail = 1 THEN Throw(coll)
    ELSE Out(With(coll, id, [name |-> req.body.name[1],
                             category |-> req.body.category[1],
                             level |-> req.body.level[1],
                             isPublished |-> TRUE]), 201))

\* PutSkill with the document replaced by the request body, the fields the
\* body lacks falling back to the schema defaults
PutSkillReplace(coll, req) ==
  TryCatch(
    IF ~(OptionalNonEmpty(req.body, "name")
         /\ (Has(req.body, "category") => req.body.category[1] \in SkillCategories)
         /\ (Has(req.body, "level") => LevelValid(req.body.level[1])))
    THEN Out(coll, 400)
    ELSE IF req.dbFail = 1 \/ req.id = NotAnObjectId THEN Throw(coll)
    ELSE IF req.id \notin DOMAIN coll THEN Out(coll, 404)
    ELSE IF req.dbFail = 2 THEN Throw(coll)
    ELSE Out(With(coll, req.id,
                  [name |-> IF Has(req.body, "name") THEN req.body.name[1] ELSE "",
                   category |-> IF Has(req.body, "category") THEN req.body.category[1]
                                ELSE "Other",
                   level |-> IF Has(req.body, "level") THEN req.body.level[1] ELSE 0,
                   isPublished |-> IF Has(req.body, "isPublished")
                                   THEN CastBoolean(req.body.isPublished[1]) ELSE TRUE]),
             200))

\* router.put('/:id', protect, [...validators], handler)
PutSkill(coll, req) ==
  TryCatch(
    IF ~(OptionalNonEmpty(req.body, "name")
         /\ (Has(req.body, "category") => req.body.category[1] \in SkillCategories)
         /\ (Has(req.body, "level") => LevelValid(req.body.level[1])))
    THEN Out(coll, 400)
    ELSE IF req.dbFail = 1 \/ req.id = NotAnObjectId THEN Throw(coll)
    ELSE IF req.id \notin DOMAIN coll THEN Out(coll, 404)
    \* updateData = { ...req.body }: findByIdAndUpdate $sets the plain keys and
    \* applies the update operators of the body; the store refuses an update
    \* that names one path twice, and runValidators does not cover $inc
    ELSE IF req.dbFail = 2 \/ (Has(req.body, "level") /\ Has(req.body, "inc"))
    THEN Throw(coll)
    ELSE LET set == SetFields(coll[req.id],
                              [req.body EXCEPT !.isPublished = CastFlag(@)])
             inc == IF Has(req.body, "inc") THEN req.body.inc[1] ELSE 0
         IN  Out(With(coll, req.id, [set EXCEPT !.level = @ + inc]), 200))

\* router.put('/order', protect, [...validators], handler) of skills.js and
\* of socials.js: the body carries the array under 'skills' or 'socials';
\* each findByIdAndUpdate sets order, a field the model does not keep
PutOrder(coll, req) ==
  TryCatch(
    IF ~Has(req.body, "list") THEN Out(coll, 400)
    ELSE IF req.dbFail = 1 THEN Throw(coll)
    ELSE Out(coll, 200))

\* router.delete('/:id', protect, handler); the same handler deletes a
\* social link and an experience
DeleteDoc(coll, req) ==
  TryCatch(
    IF req.dbFail = 1 THEN Throw(coll)
    ELSE IF req.id \notin DOMAIN coll THEN Out(coll, 404)
    ELSE IF req.dbFail = 2 THEN Throw(coll)
    ELSE Out(Without(coll, req.id), 200))

\* ------------------------------------------------------- the public reads
\* the query string of GET /api/projects (featured), the :category of
\* GET /api/skills/category/:category and the :slug of GET /api/projects/:slug
NoQuery == [featured |-> FALSE, category |-> "", slug |-> ""]

\* router.get('/', handler) of skills.js, certifications.js, experiences.js
\* (find({ isPublished: true })) and socials.js (find({ isActive: true }))
GetList(coll, req, flag) ==
  TryCatch(
    IF req.dbFail = 1 THEN Throw(coll)
    ELSE [Out(coll, 200) EXCEPT !.docs = {coll[i] : i \in {j \in DOMAIN coll : coll[j][flag]}}])

\* GetById answering with the document whatever its flag
GetByIdUnfiltered(coll, req, flag) ==
  TryCatch(
    IF req.dbFail = 1 \/ req.id = NotAnObjectId THEN Throw(coll)
    ELSE IF req.id \notin DOMAIN coll THEN Out(coll, 404)
    ELSE [Out(coll, 200) EXCEPT !.docs = {coll[req.id]}])

\* router.get('/:id', handler) of the same routers, and
\* router.get('/id/:id', handler) of projects.js: findOne({ _id, flag: true })
GetById(coll, req, flag) ==
  TryCatch(
    IF req.dbFail = 1 \/ req.id = NotAnObjectId THEN Throw(coll)
    ELSE IF req.id \notin DOMAIN coll \/ ~coll[req.id][flag] THEN Out(coll, 404)
    ELSE [Out(coll, 200) EXCEPT !.docs = {coll[req.id]}])

\* router.get('/category/:category', handler) of skills.js
GetSkillsByCategory(coll, req) ==
  TryCatch(
    IF req.dbFail = 1 THEN Throw(coll)
    ELSE [Out(coll, 200) EXCEPT
            !.docs = {coll[i] : i \in {j \in DOMAIN coll :
                                          /\ coll[j].category = req.query.category
                                          /\ coll[j].isPublished}}])

\* router.get('/', handler) of projects.js: query = { isPublished: true },
\* and isFeatured: true when the query string has featured=true; the other
\* filters and the pagination, which only narrow the result, are left out
GetProjects(coll, req) ==
  TryCatch(
    IF req.dbFail = 1 THEN Throw(coll)
    ELSE [Out(coll, 200) EXCEPT
            !.docs = {coll[i] : i \in {j \in DOMAIN coll :
                                          /\ coll[j].isPublished
                                          /\ req.query.featured => coll[j].isFeatured}}])

\* router.get('/featured', handler): find({ isFeatured: true, isPublished: true })
GetFeatured(coll, req) ==
  TryCatch(
    IF req.dbFail = 1 THEN Throw(coll)
    ELSE [Out(coll, 200) EXCEPT
            !.docs = {coll[i] : i \in {j \in DOMAIN coll :
                                          coll[j].isFeatured /\ coll[j].isPublished}}])

\* router.get('/:slug', handler): findOne({ slug, isPublished: true })
GetProjectBySlug(coll, req) ==
  TryCatch(
    IF req.dbFail = 1 THEN Throw(coll)
    ELSE LET found == {i \in DOMAIN coll :
                         coll[i].slug = req.query.slug /\ coll[i].isPublished}
         IN  IF found = {} THEN Out(coll, 404)
             ELSE [Out(coll, 200) EXCEPT !.docs = {coll[CHOOSE i \in found : TRUE]}])

\* --------------------------------------------------------------- socials.js
SocialBodies == [platform : {Absent, <<"">>, <<"p1">>, <<"p2">>},
                 isActive : FlagInputs]

\* router.post('/', protect, [...validators], handler): isActive is not read
PostSocial(coll, req, id) ==
  TryCatch(
    IF ~NonEmptyField(req.body, "platform") THEN Out(coll, 400)
    ELSE IF req.dbFail = 1 THEN Throw(coll)
    ELSE Out(With(coll, id, [platform |-> req.body.platform[1], isActive |-> TRUE]), 201))

\* updateData.isActive = req.body.isActive === 'true'
SocialUpdateData(body) ==
  [body EXCEPT !.isActive =
     IF Has(body, "isActive") THEN <<(~body.isActive[1].json) /\ body.isActive[1].val>>
     ELSE Absent]

\* router.put('/:id', protect, [...validators], handler)
PutSocial(coll, req) ==
  TryCatch(
    IF ~OptionalNonEmpty(req.body, "platform") THEN Out(coll, 400)
    ELSE IF req.dbFail = 1 \/ req.id = NotAnObjectId THEN Throw(coll)
    ELSE IF req.id \notin DOMAIN coll THEN Out(coll, 404)
    ELSE IF req.dbFail = 2 THEN Throw(coll)
    ELSE Out(With(coll, req.id,
                  SetFields(coll[req.id], SocialUpdateData(req.body))), 200))

\* ----------------------------------------------------------------- users.js
\* the user the token of an authenticated request belongs to (req.user._id)
TokenUser == 1

UserBodies == [name : {Absent, <<"">>, <<"n2">>}, bio : {Absent, <<"">>, <<"b2">>}]

\* isLength({ min: 2, max: 50 }) on name, optional
UserNameValid(body) == ~Has(body, "name") \/ body.name[1] # ""

\* PutUser without the check that the user updates their own profile
PutUserAnyId(coll, req) ==
  TryCatch(
    IF ~UserNameValid(req.body) THEN Out(coll, 400)
    ELSE IF req.dbFail = 1 THEN Throw(coll)
    ELSE IF req.id \notin DOMAIN coll THEN Out(coll, 404)
    ELSE IF req.dbFail = 2 THEN Throw(coll)
    ELSE LET user == coll[req.id]
         IN  Out(With(coll, req.id,
                      [name |-> IF Has(req.body, "name") /\ req.body.name[1] # ""
                                THEN req.body.name[1] ELSE user.name,
                       bio |-> IF Has(req.body, "bio") THEN req.body.bio[1] ELSE user.bio,
                       avatar |-> user.avatar]),
                 200))

\* router.put('/:id', protect, [...validators], handler)
PutUser(coll, req) ==
  TryCatch(
    IF ~UserNameValid(req.body) THEN Out(coll, 400)
    ELSE IF req.dbFail = 1 THEN Throw(coll)
    ELSE IF req.id \notin DOMAIN coll THEN Out(coll, 404)
    ELSE IF req.id # TokenUser THEN Out(coll, 401)
    ELSE IF req.dbFail = 2 THEN Throw(coll)
    ELSE LET user == coll[req.id]
         IN  Out(With(coll, req.id,
                      [name |-> IF Has(req.body, "name") /\ req.body.name[1] # ""
                                THEN req.body.name[1] ELSE user.name,
                       bio |-> IF Has(req.body, "bio") THEN req.body.bio[1] ELSE user.bio,
                       avatar |-> user.avatar]),
                 200))

\* --------------------------------------------------------------- contact.js
ContactBodies == [name : {Absent, <<"c1">>}]

\* The notification email: skipped when EMAIL_HOST, EMAIL_USER or EMAIL_PASS
\* is unset; otherwise nodemailer.createTransporter(...) is called, which
\* is not a function of nodemailer (its factory is createTransport), so the
\* block throws a TypeError.
EmailStates == {"unset", "configured"}
SendNotification(req) == IF req.email = "configured" THEN "throws" ELSE "skipped"

\* PostContact without the try/catch around the email block
PostContactMailUncaught(coll, req, id) ==
  TryCatch(
    IF ~NonEmptyField(req.body, "name") THEN Out(coll, 400)
    ELSE IF req.dbFail = 1 THEN Throw(coll)
    ELSE LET stored == With(coll, id, [name |-> req.body.name[1],
                                       isRead |-> FALSE, isReplied |-> FALSE])
         IN  IF SendNotification(req) = "throws"
             THEN [Throw(stored) EXCEPT !.mail = "throws"]
             ELSE Out(stored, 201))

\* router.post('/', [...validators], handler): public
PostContact(coll, req, id) ==
  TryCatch(
    IF ~NonEmptyField(req.body, "name") THEN Out(coll, 400)
    ELSE IF req.dbFail = 1 THEN Throw(coll)
    ELSE LET stored == With(coll, id, [name |-> req.body.name[1],
                                       isRead |-> FALSE, isReplied |-> FALSE])
         \* catch (emailError) { console.error(...) }: the request goes on
         IN  [Out(stored, 201) EXCEPT !.mail = SendNotification(req)])

\* router.get('/', handler): the list, all messages or the unread ones
GetContacts(coll, req) ==
  TryCatch(
    IF req.dbFail = 1 THEN Throw(coll)
    ELSE [Out(coll, 200) EXCEPT
            !.data = Cardinality({i \in DOMAIN coll : req.unread => ~coll[i].isRead})])

\* router.get('/:id', handler): one message, marked as read
GetContact(coll, req) ==
  TryCatch(
    IF req.dbFail = 1 THEN Throw(coll)
    ELSE IF req.id \notin DOMAIN coll THEN Out(coll, 404)
    ELSE IF ~coll[req.id].isRead /\ req.dbFail = 2 THEN Throw(coll)
    ELSE [Out(With(coll, req.id, [coll[req.id] EXCEPT !.isRead = TRUE]), 200)
            EXCEPT !.data = 1])

\* router.put('/:id/read', handler) and router.put('/:id/replied', handler)
MarkContact(coll, req, flag) ==
  TryCatch(
    IF req.dbFail = 1 THEN Throw(coll)
    ELSE IF req.id \notin DOMAIN coll THEN Out(coll, 404)
    ELSE IF req.dbFail = 2 THEN Throw(coll)
    ELSE Out(With(coll, req.id, [coll[req.id] EXCEPT ![flag] = TRUE]), 200))

\* ------------------------------------------------- middleware/upload.js
\* middleware/errorHandler.js: what next(error) reaches
ErrorHandler(coll) == Out(coll, 500)

\* processImageUpload, processIconUpload, processImagesUpload: without a
\* file the chain goes on; with files they are uploaded and the chain goes
\* on, or the upload throws and the error handler answers
ProcessUpload(req, coll, out) ==
  IF req.files = 0 THEN out
  ELSE IF req.upFail THEN ErrorHandler(coll)
  ELSE [out EXCEPT !.uploaded = req.files]

\* try { await deleteFromCloudinary(public_id) } catch (error) { console.error(...) }
\* for each public_id of pids (0 is no public_id): the calls made and the
\* calls that threw
Destroy(out, pids, req) ==
  [out EXCEPT !.tried = pids \ {0}, !.failed = (pids \ {0}) \cap req.failing]

\* ---- users: the avatar routes (skills.js)
\* router.post('/upload-avatar', protect, uploadImage, processImageUpload, handler)
\* avatar is the public_id of profilePicture, 0 for ''
UploadAvatar(coll, req) ==
  TryCatch(
    IF req.cloud = 0 THEN Out(coll, 400)
    ELSE IF req.dbFail = 1 THEN Throw(coll)
    ELSE IF TokenUser \notin DOMAIN coll THEN Out(coll, 404)
    ELSE LET old == {coll[TokenUser].avatar}
         IN  IF req.dbFail = 2 THEN Destroy(Throw(coll), old, req)
             ELSE Destroy(Out(With(coll, TokenUser,
                                   [coll[TokenUser] EXCEPT !.avatar = req.cloud]), 200),
                          old, req))

\* router.delete('/delete-avatar', protect, handler)
DeleteAvatar(coll, req) ==
  TryCatch(
    IF req.dbFail = 1 THEN Throw(coll)
    ELSE IF TokenUser \notin DOMAIN coll THEN Out(coll, 404)
    ELSE LET old == {coll[TokenUser].avatar}
         IN  IF req.dbFail = 2 THEN Destroy(Throw(coll), old, req)
             ELSE Destroy(Out(With(coll, TokenUser,
                                   [coll[TokenUser] EXCEPT !.avatar = 0]), 200),
                          old, req))

\* ------------------------------------------------------- certifications.js
CertBodies == [title : {Absent, <<"">>, <<"t1">>, <<"t2">>}, isPublished : {Absent}]

\* router.post('/', protect, uploadLogo, processImageUpload, [...validators], handler)
PostCertification(coll, req, id) ==
  TryCatch(
    IF ~NonEmptyField(req.body, "title") THEN Out(coll, 400)
    ELSE IF req.dbFail = 1 THEN Throw(coll)
    ELSE Out(With(coll, id, [title |-> req.body.title[1], logo |-> req.cloud,
                             isPublished |-> TRUE]), 201))

\* router.put('/:id', protect, uploadLogo, processImageUpload, [...validators], handler)
PutCertification(coll, req) ==
  TryCatch(
    IF ~OptionalNonEmpty(req.body, "title") THEN Out(coll, 400)
    ELSE IF req.dbFail = 1 THEN Throw(coll)
    ELSE IF req.id \notin DOMAIN coll THEN Out(coll, 404)
    ELSE LET old == IF req.cloud # 0 THEN {coll[req.id].logo} ELSE {}
             \* updateData = { ...req.body }, then the logo over it
             updateData == [title |-> req.body.title,
                            isPublished |-> CastFlag(req.body.isPublished),
                            logo |-> IF req.cloud # 0 THEN <<req.cloud>> ELSE Absent]
         IN  IF req.dbFail = 2 THEN Destroy(Throw(coll), old, req)
             ELSE Destroy(Out(With(coll, req.id, SetFields(coll[req.id], updateData)), 200),
                          old, req))

\* DeleteCertification without the try/catch around deleteFromCloudinary: a
\* refused deletion ends the handler in its outer catch
DeleteCertificationAbort(coll, req) ==
  TryCatch(
    IF req.dbFail = 1 THEN Throw(coll)
    ELSE IF req.id \notin DOMAIN coll THEN Out(coll, 404)
    ELSE LET logo == {coll[req.id].logo}
         IN  IF (logo \ {0}) \cap req.failing # {} THEN Destroy(Throw(coll), logo, req)
             ELSE IF req.dbFail = 2 THEN Destroy(Throw(coll), logo, req)
             ELSE Destroy(Out(Without(coll, req.id), 200), logo, req))

\* router.delete('/:id', protect, handler)
DeleteCertification(coll, req) ==
  TryCatch(
    IF req.dbFail = 1 THEN Throw(coll)
    ELSE IF req.id \notin DOMAIN coll THEN Out(coll, 404)
    ELSE LET logo == {coll[req.id].logo}
         IN  IF req.dbFail = 2 THEN Destroy(Throw(coll), logo, req)
             ELSE Destroy(Out(Without(coll, req.id), 200), logo, req))

\* ---------------------------------------------------------- experiences.js
ExperienceBodies == [company : {Absent, <<"">>, <<"e1">>, <<"e2">>}, isPublished : {Absent},
                     isCurrent : {Absent}]

\* isCurrent === 'true' || isCurrent === true
IsTrue(b) == b.val

\* router.post('/', protect, uploadIcon, processIconUpload, [...validators], handler)
PostExperience(coll, req, id) ==
  TryCatch(
    IF ~NonEmptyField(req.body, "company") THEN Out(coll, 400)
    ELSE IF req.dbFail = 1 THEN Throw(coll)
    ELSE Out(With(coll, id, [company |-> req.body.company[1], icon |-> req.cloud,
                             isPublished |-> TRUE,
                             isCurrent |-> Has(req.body, "isCurrent")
                                           /\ IsTrue(req.body.isCurrent[1])]), 201))

\* router.put('/:id', protect, uploadIcon, processIconUpload, [...validators], handler)
PutExperience(coll, req) ==
  TryCatch(
    IF ~OptionalNonEmpty(req.body, "company") THEN Out(coll, 400)
    ELSE IF req.dbFail = 1 THEN Throw(coll)
    ELSE IF req.id \notin DOMAIN coll THEN Out(coll, 404)
    ELSE LET \* updateData = { ...req.body }, then the icon over it
             updateData == [company |-> req.body.company,
                            isPublished |-> CastFlag(req.body.isPublished),
                            isCurrent |-> IF Has(req.body, "isCurrent")
                                          THEN <<IsTrue(req.body.isCurrent[1])>> ELSE Absent,
                            icon |-> IF req.cloud # 0 THEN <<req.cloud>> ELSE Absent]
         IN  IF req.dbFail = 2 THEN Throw(coll)
             ELSE Out(With(coll, req.id, SetFields(coll[req.id], updateData)), 200))

\* ------------------------------------------------------------- projects.js
\* the list inputs of the server model: absent, an array of one item object,
\* and a one-item comma-separated string
ItemA == Obj(<<"a">>, <<"a">>, <<"a">>)
ListInputs == {Undef, ArrVal(<<ItemA>>), StrVal(<<"B">>)}

ProjectBodies == [title : {Absent, <<"">>, <<"t1">>, <<"t2">>},
                  techStack : ListInputs, features : ListInputs]

\* the fields a project request carries
ProjectFieldsOf(body) ==
  {f \in {"title", "year", "type", "rating", "isFeatured", "isPublished", "inc"} :
     Has(body, f)}
    \cup {f \in {"techStack", "features", "links"} : body[f].t # "undef"}

\* The fields of a project body other than title, techStack and features:
\* links, year, type, the rating of a stats object, isFeatured, isPublished,
\* and the amount of an update operator { $inc: { 'stats.rating': amount } }.
NoRest == [links |-> Undef, year |-> Absent, type |-> Absent, rating |-> Absent,
           isFeatured |-> Absent, isPublished |-> Absent, inc |-> Absent]
\* those of a body POST's validators accept
ValidRest == [NoRest EXCEPT !.year = <<2024>>, !.type = <<"web">>]

\* isInt({ min: 2000, max: new Date().getFullYear() + 1 })
YearMin == 2000
YearValid(n) == n >= YearMin
\* isIn(['mobile', 'web', 'desktop', 'other'])
ProjectTypes == {"mobile", "web", "desktop", "other"}
\* projectSchema.stats.rating: min 0, max 5
RatingMax == 5
RatingValid(n) == n >= 0 /\ n <= RatingMax
\* isFeatured === 'true': the flag arrives as JSON boolean or as string
IsTrueString(b) == ~b.json /\ b.val
\* slugify(this.title, { lower: true, strict: true }): the titles a project
\* is created with here are lower-case letters and digits, which slugify
\* leaves as they are
Slugify(title) == title
\* a body without any field
EmptyProjectBody == [title |-> Absent, techStack |-> Undef, features |-> Undef] @@ NoRest
\* (a project is created under one title, and renamed by PUT)
ProjectPostBodies ==
  {core @@ ValidRest : core \in {b \in ProjectBodies : b.title # <<"t2">>}}
    \cup {EmptyProjectBody}
ProjectPutBodies == {core @@ NoRest : core \in ProjectBodies}

\* A route without multer in its chain: express.json() and
\* express.urlencoded() do not read a multipart/form-data request, so a
\* request that carries a file reaches the validators and the handler with
\* req.body empty, and neither req.file nor req.cloudinaryResult is set.
NoMulter(req, empty) ==
  IF req.files = 0 THEN req
  ELSE [req EXCEPT !.body = empty, !.cloud = 0, !.clouds = <<>>]

\* router.post('/', protect, [...validators], handler): coverData is
\* req.cloudinaryResult when it is set, and projectData.cover is added only
\* then
PostProject(coll, req, id) ==
  TryCatch(
    IF ~(NonEmptyField(req.body, "title")
         /\ Has(req.body, "year") /\ YearValid(req.body.year[1])
         /\ Has(req.body, "type") /\ req.body.type[1] \in ProjectTypes
         /\ ListValidPost(req.body.techStack) /\ ListValidPost(req.body.features))
    THEN Out(coll, 400)
    ELSE LET parsedTechStack == simplifyData(req.body.techStack)
             parsedFeatures == simplifyData(req.body.features)
             parsedLinks == IF Truthy(req.body.links) THEN PostParseLinks(req.body.links)
                            ELSE <<>>
             \* parsedStats = stats; the schema's default for rating is 0
             parsedRating == IF Has(req.body, "rating") THEN req.body.rating[1] ELSE 0
         IN  IF req.dbFail = 1 THEN Throw(coll)
             \* Project.create: the schema's cast and validators, then the
             \* pre('save') hook that sets the slug, which the unique index
             \* on slug refuses when another project holds it
             ELSE IF ~(TechStackCasts(parsedTechStack) /\ FeaturesCast(parsedFeatures)
                       /\ LinksCast(parsedLinks) /\ RatingValid(parsedRating))
                     \/ (\E i \in DOMAIN coll : coll[i].slug = Slugify(req.body.title[1]))
             THEN Throw(coll)
             ELSE Out(With(coll, id,
                           [title |-> req.body.title[1],
                            slug |-> Slugify(req.body.title[1]),
                            isPublished |-> TRUE,
                            year |-> req.body.year[1],
                            type |-> req.body.type[1],
                            rating |-> parsedRating,
                            isFeatured |-> Has(req.body, "isFeatured")
                                           /\ IsTrueString(req.body.isFeatured[1]),
                            techStack |-> MapSeq(TechDoc, parsedTechStack),
                            features |-> MapSeq(FeatureDoc, parsedFeatures),
                            links |-> MapSeq(LinkDoc, parsedLinks),
                            cover |-> req.cloud,
                            gallery |-> <<>>]), 201))

\* router.put('/:id', protect, uploadImage, processImageUpload, [...validators], handler)
PutProject(coll, req) ==
  TryCatch(
    IF ~(OptionalNonEmpty(req.body, "title")
         /\ (Has(req.body, "year") => YearValid(req.body.year[1]))
         /\ (Has(req.body, "type") => req.body.type[1] \in ProjectTypes)
         /\ ListValidPut(req.body.techStack) /\ ListValidPut(req.body.features))
    THEN Out(coll, 400)
    ELSE IF req.dbFail = 1 THEN Throw(coll)
    ELSE IF req.id \notin DOMAIN coll THEN Out(coll, 404)
    ELSE LET project == coll[req.id]
             tech == req.body.techStack
             feat == req.body.features
             \* updateData = { ...req.body }, then the parsed lists over it
             castsTech == tech.t = "undef"
                          \/ (Truthy(tech) /\ TechStackCasts(PutParseTechStack(tech)))
             castsFeat == feat.t = "undef"
                          \/ (Truthy(feat) /\ FeaturesCast(PutParseFeatures(feat)))
             links == req.body.links
             castsLinks == links.t = "undef"
                           \/ (Truthy(links) /\ LinksCast(PutParseLinks(links)))
             \* runValidators covers the $set paths, not $inc; the store
             \* refuses an update that names one path twice
             castsStats == /\ Has(req.body, "rating") => RatingValid(req.body.rating[1])
                           /\ ~(Has(req.body, "rating") /\ Has(req.body, "inc"))
             inc == IF Has(req.body, "inc") THEN req.body.inc[1] ELSE 0
             updateData ==
               [title |-> req.body.title,
                year |-> req.body.year,
                type |-> req.body.type,
                rating |-> req.body.rating,
                isFeatured |-> IF Has(req.body, "isFeatured")
                               THEN <<IsTrueString(req.body.isFeatured[1])>> ELSE Absent,
                isPublished |-> CastFlag(req.body.isPublished),
                techStack |-> IF tech.t = "undef" THEN Absent
                              ELSE <<MapSeq(TechDoc, PutParseTechStack(tech))>>,
                features |-> IF feat.t = "undef" THEN Absent
                             ELSE <<MapSeq(FeatureDoc, PutParseFeatures(feat))>>,
                links |-> IF links.t = "undef" THEN Absent
                          ELSE <<MapSeq(LinkDoc, PutParseLinks(links))>>,
                cover |-> IF req.cloud # 0 THEN <<req.cloud>> ELSE Absent]
             old == IF req.cloud # 0 THEN {project.cover} ELSE {}
             updated == [SetFields(project, updateData) EXCEPT !.rating = @ + inc]
         IN  IF req.dbFail = 2 \/ ~(castsTech /\ castsFeat /\ castsLinks /\ castsStats)
             THEN Destroy(Throw(coll), old, req)
             ELSE Destroy(Out(With(coll, req.id, updated), 200), old, req))

Range(s) == {s[i] : i \in 1..Len(s)}

\* A gallery sub-document: { url, public_id, caption }; its _id is modelled
\* by its public_id, and its caption by the caption's length.
NewImage(pid) == [public_id |-> pid, caption |-> 0]
GalleryIds(project) == {project.gallery[i].public_id : i \in 1..Len(project.gallery)}

\* router.delete('/:id', protect, handler)
DeleteProject(coll, req) ==
  TryCatch(
    IF req.dbFail = 1 THEN Throw(coll)
    ELSE IF req.id \notin DOMAIN coll THEN Out(coll, 404)
    ELSE LET images == {coll[req.id].cover} \cup GalleryIds(coll[req.id])
         IN  IF req.dbFail = 2 THEN Destroy(Throw(coll), images, req)
             ELSE Destroy(Out(Without(coll, req.id), 200), images, req))

\* router.post('/:id/gallery', protect, uploadImages, processImagesUpload, handler)
PostGallery(coll, req) ==
  TryCatch(
    IF req.dbFail = 1 THEN Throw(coll)
    ELSE IF req.id \notin DOMAIN coll THEN Out(coll, 404)
    ELSE IF Len(req.clouds) = 0 THEN Out(coll, 400)
    ELSE IF req.dbFail = 2 THEN Throw(coll)
    ELSE Out(With(coll, req.id,
                  [coll[req.id] EXCEPT !.gallery = @ \o MapSeq(NewImage, req.clouds)]),
             200))

\* router.delete('/:projectId/gallery/:imageId', protect, handler)
DeleteGalleryImage(coll, req) ==
  TryCatch(
    IF req.dbFail = 1 THEN Throw(coll)
    ELSE IF req.id \notin DOMAIN coll THEN Out(coll, 404)
    ELSE IF req.imageId \notin GalleryIds(coll[req.id]) THEN Out(coll, 404)
    ELSE LET rest == SelectSeq(coll[req.id].gallery, LAMBDA g : g.public_id # req.imageId)
         IN  IF req.dbFail = 2 THEN Destroy(Throw(coll), {req.imageId}, req)
             ELSE Destroy(Out(With(coll, req.id, [coll[req.id] EXCEPT !.gallery = rest]),
                              200),
                          {req.imageId}, req))

\* projectSchema.gallery.caption: maxlength 200
CaptionMax == 200

\* router.put('/:projectId/gallery/:imageId', protect, [body('caption')...], handler)
\* The handler does not read validationResult; project.save() runs the
\* schema's validators.
PutCaption(coll, req) ==
  TryCatch(
    IF req.dbFail = 1 THEN Throw(coll)
    ELSE IF req.id \notin DOMAIN coll THEN Out(coll, 404)
    ELSE IF req.imageId \notin GalleryIds(coll[req.id]) THEN Out(coll, 404)
    ELSE LET caption == IF Has(req.body, "caption") THEN req.body.caption[1] ELSE 0
             gallery == [i \in 1..Len(coll[req.id].gallery) |->
                           IF coll[req.id].gallery[i].public_id = req.imageId
                           THEN [coll[req.id].gallery[i] EXCEPT !.caption = caption]
                           ELSE coll[req.id].gallery[i]]
         IN  IF req.dbFail = 2 \/ caption > CaptionMax THEN Throw(coll)
             ELSE Out(With(coll, req.id, [coll[req.id] EXCEPT !.gallery = gallery]), 200))

\* router.put('/:id/gallery/reorder', protect, [body('imageIds').isArray()], handler)
\* The handler does not read validationResult; a for...of over an absent
\* imageIds throws a TypeError.
RECURSIVE Reordered(_, _)
Reordered(gallery, imageIds) ==
  IF imageIds = <<>> THEN <<>>
  ELSE LET found == SelectSeq(gallery, LAMBDA g : g.public_id = Head(imageIds))
       \* project.gallery.find: the first image with that _id, if any
       IN  (IF found = <<>> THEN <<>> ELSE <<Head(found)>>)
             \o Reordered(gallery, Tail(imageIds))

ReorderGallery(coll, req) ==
  TryCatch(
    IF req.dbFail = 1 THEN Throw(coll)
    ELSE IF req.id \notin DOMAIN coll THEN Out(coll, 404)
    ELSE IF ~Has(req.body, "imageIds") \/ req.dbFail = 2 THEN Throw(coll)
    ELSE Out(With(coll, req.id,
                  [coll[req.id] EXCEPT
                     !.gallery = Reordered(coll[req.id].gallery, req.body.imageIds[1])]),
             200))

\* ------------------------------------------------------------ the server
\* A request: whether it carries a valid token, its :id, its body, the
\* number of files attached, whether the media host refuses the upload,
\* which document-store call of the handler throws (0: none), the
\* public_ids whose deletion the media host refuses, and what the upload
\* middleware left on it: cloud is req.cloudinaryResult.public_id (or
\* req.iconResult.public_id), 0 without a file, and clouds the public_ids of
\* req.cloudinaryResults, as the media host hands them out.
Request(auth, id, body, f) ==
  [auth |-> auth, id |-> id, body |-> body, files |-> f.files, upFail |-> f.upFail,
   dbFail |-> f.dbFail, failing |-> f.failing,
   cloud |-> IF f.files > 0 THEN uploads + 1 ELSE 0,
   clouds |-> [i \in 1..f.files |-> uploads + i],
   imageId |-> 0, unread |-> FALSE, email |-> "unset", query |-> NoQuery]

DbFails == 0..2
NoBody == [none |-> Absent]

NoResp ==
  [route |-> "none", auth |-> FALSE, id |-> 0, fields |-> {},
   sent |-> <<>>, threw |-> FALSE, uploaded |-> 0, tried |-> {}, failed |-> {},
   data |-> 0, mail |-> "skipped", docs |-> {}, query |-> NoQuery]

\* what one route answered for the probed list input, and the list it stored
NoResult == [status |-> 0, items |-> <<>>]
NoProbe == [field |-> "none", input |-> Undef, post |-> NoResult, put |-> NoResult]

\* The response is recorded; an exception that escapes a handler is an
\* unhandled rejection, on which the process exits (server.js,
\* process.on('unhandledRejection')).
Answered2xx(out) == out.sent # <<>> /\ out.sent[1] \in {200, 201}

Serve(route, req, fields, out) ==
  /\ alive
  /\ req.failing \subseteq out.tried
  /\ resp' = [route |-> route, auth |-> req.auth, id |-> req.id,
              fields |-> IF Answered2xx(out) THEN fields ELSE {},
              sent |-> out.sent, threw |-> out.threw,
              uploaded |-> out.uploaded, tried |-> out.tried, failed |-> out.failed,
              data |-> out.data, mail |-> out.mail, docs |-> out.docs,
              query |-> req.query]
  /\ alive' = ~(out.threw /\ out.sent = <<>>)
  /\ uploads' = uploads + out.uploaded

\* What the environment does to one request: the number of files attached
\* (the media host hands out MaxUploads public_ids), whether the media host
\* refuses the upload, which document-store call throws, the deletions the
\* media host refuses.  A request that protect rejects reaches neither the
\* store nor the media host, a refused upload ends the request before the
\* handler, and one request meets one failure.
FileCounts(most) == {n \in 0..most : uploads + n <= MaxUploads}

Faults(reached, most, dbs, media) ==
  {f \in [files : FileCounts(most), upFail : BOOLEAN, dbFail : dbs, failing : SUBSET media] :
     /\ ~reached => (f.dbFail = 0 /\ ~f.upFail /\ f.failing = {})
     /\ f.upFail => (f.files > 0 /\ f.dbFail = 0 /\ f.failing = {})
     /\ f.dbFail # 0 => f.failing = {}}

\* protect answers before the body is read: a request without a token is
\* enumerated with an empty body
Sent(auth, bodies, fieldsOf(_)) ==
  IF auth THEN bodies ELSE {b \in bodies : fieldsOf(b) = {}}

\* The routers share no document: requests to a router are enumerated
\* while the collections of the other routers hold what they held at start.
SeedUsers == [i \in {1, 2} |-> [name |-> "n1", bio |-> "b1", avatar |-> 0]]

StoreNames ==
  {"projects", "experiences", "skills", "certifications", "socials", "users", "contacts"}

Store(c) ==
  CASE c = "projects" -> projects
    [] c = "experiences" -> experiences
    [] c = "skills" -> skills
    [] c = "certifications" -> certifications
    [] c = "socials" -> socials
    [] c = "users" -> users
    [] OTHER -> contacts

Populated ==
  {c \in StoreNames \ {"users"} : DOMAIN Store(c) # {}}
    \cup (IF users # SeedUsers THEN {"users"} ELSE {})

Focus(c) == Populated \subseteq {c}

\* the store hands out nextId when a document was created
Created(out) == IF nextId \in DOMAIN out.coll THEN nextId + 1 ELSE nextId

Init ==
  /\ projects = Empty
  /\ experiences = Empty
  /\ skills = Empty
  /\ certifications = Empty
  /\ socials = Empty
  /\ contacts = Empty
  /\ users = SeedUsers
  /\ nextId = 1
  /\ uploads = 0
  /\ alive = TRUE
  /\ resp = NoResp
  /\ probe = NoProbe

\* ---- skills
SkillPostOf(bodies, dbs) ==
  /\ Focus("skills")
  /\ nextId <= MaxDocs
  /\ \E auth \in BOOLEAN :
     \E body \in Sent(auth, bodies, FieldsOf), f \in Faults(auth, 0, dbs, {}) :
     \E req \in {Request(auth, 0, body, f)} :
     \E out \in {Protect(req, skills, PostSkill(skills, req, nextId))} :
        /\ Serve("POST /api/skills", req, FieldsOf(body), out)
        /\ skills' = out.coll
        /\ nextId' = Created(out)
        /\ UNCHANGED <<projects, experiences, certifications, socials, users, contacts, probe>>

SkillPost == SkillPostOf(SkillPostBodies, 0..1)

SkillPutOf(bodies, dbs) ==
  /\ Focus("skills")
  /\ \E auth \in BOOLEAN :
     \E id \in IdsOf(skills), body \in Sent(auth, bodies, FieldsOf),
        f \in Faults(auth, 0, dbs, {}) :
     \E req \in {Request(auth, id, body, f)} :
     \E out \in {Protect(req, skills, PutSkill(skills, req))} :
        /\ Serve("PUT /api/skills/:id", req, FieldsOf(body), out)
        /\ skills' = out.coll
        /\ UNCHANGED <<projects, experiences, certifications, socials, users, contacts,
                       nextId, probe>>

SkillPut == SkillPutOf(SkillPutBodies, DbFails)

SkillDelete ==
  /\ Focus("skills")
  /\ \E auth \in BOOLEAN :
     \E id \in IdsOf(skills), f \in Faults(auth, 0, DbFails, {}) :
     \E req \in {Request(auth, id, NoBody, f)} :
     \E out \in {Protect(req, skills, DeleteDoc(skills, req))} :
        /\ Serve("DELETE /api/skills/:id", req, {}, out)
        /\ skills' = out.coll
        /\ UNCHANGED <<projects, experiences, certifications, socials, users, contacts,
                       nextId, probe>>

\* ---- socials
SocialPost ==
  /\ Focus("socials")
  /\ nextId <= MaxDocs
  /\ \E auth \in BOOLEAN :
     \E body \in Sent(auth, SocialBodies, FieldsOf), f \in Faults(auth, 0, 0..1, {}) :
     \E req \in {Request(auth, 0, body, f)} :
     \E out \in {Protect(req, socials, PostSocial(socials, req, nextId))} :
        /\ Serve("POST /api/socials", req, FieldsOf(body), out)
        /\ socials' = out.coll
        /\ nextId' = Created(out)
        /\ UNCHANGED <<projects, experiences, skills, certifications, users, contacts, probe>>

SocialPutAt(auth, id, body, f) ==
  /\ Focus("socials")
  /\ \E req \in {Request(auth, id, body, f)} :
     \E out \in {Protect(req, socials, PutSocial(socials, req))} :
        /\ Serve("PUT /api/socials/:id", req, FieldsOf(body), out)
        /\ socials' = out.coll
        /\ UNCHANGED <<projects, experiences, skills, certifications, users, contacts,
                       nextId, probe>>

SocialPutOf(bodies, dbs) ==
  /\ Focus("socials")
  /\ \E auth \in BOOLEAN :
     \E id \in IdsOf(socials), body \in Sent(auth, bodies, FieldsOf),
        f \in Faults(auth, 0, dbs, {}) :
        SocialPutAt(auth, id, body, f)

SocialPut == SocialPutOf(SocialBodies, DbFails)

SocialDelete ==
  /\ Focus("socials")
  /\ \E auth \in BOOLEAN :
     \E id \in IdsOf(socials), f \in Faults(auth, 0, DbFails, {}) :
     \E req \in {Request(auth, id, NoBody, f)} :
     \E out \in {Protect(req, socials, DeleteDoc(socials, req))} :
        /\ Serve("DELETE /api/socials/:id", req, {}, out)
        /\ socials' = out.coll
        /\ UNCHANGED <<projects, experiences, skills, certifications, users, contacts,
                       nextId, probe>>

\* ---- users
UserPutAt(auth, id, body, f) ==
  /\ Focus("users")
  /\ \E req \in {Request(auth, id, body, f)} :
     \E out \in {Protect(req, users, PutUser(users, req))} :
        /\ Serve("PUT /api/users/:id", req, FieldsOf(body), out)
        /\ users' = out.coll
        /\ UNCHANGED <<projects, experiences, skills, certifications, socials, contacts,
                       nextId, probe>>

UserPut ==
  \E auth \in BOOLEAN :
     \E id \in IdsOf(users), body \in Sent(auth, UserBodies, FieldsOf),
        f \in Faults(auth, 0, DbFails, {}) :
        UserPutAt(auth, id, body, f)

\* ---- contact
ContactPostAt(body, f, email) ==
  /\ Focus("contacts")
  /\ nextId <= MaxDocs
  /\ \E auth \in BOOLEAN :
     \E req \in {[Request(auth, 0, body, f) EXCEPT !.email = email]} :
     \E out \in {PostContact(contacts, req, nextId)} :
        /\ Serve("POST /api/contact", req, FieldsOf(body), out)
        /\ contacts' = out.coll
        /\ nextId' = Created(out)
        /\ UNCHANGED <<projects, experiences, skills, certifications, socials, users, probe>>

ContactPost ==
  \E body \in ContactBodies, f \in Faults(TRUE, 0, 0..1, {}), email \in EmailStates :
     ContactPostAt(body, f, email)

ContactList ==
  /\ Focus("contacts")
  /\ \E auth \in BOOLEAN :
     \E unread \in BOOLEAN, f \in Faults(TRUE, 0, 0..1, {}) :
     \E req \in {[Request(auth, 0, NoBody, f) EXCEPT !.unread = unread]} :
     \E out \in {GetContacts(contacts, req)} :
        /\ Serve("GET /api/contact", req, {}, out)
        /\ contacts' = out.coll
        /\ UNCHANGED <<projects, experiences, skills, certifications, socials, users,
                       nextId, probe>>

ContactGet ==
  /\ Focus("contacts")
  /\ \E auth \in BOOLEAN :
     \E id \in IdsOf(contacts), f \in Faults(TRUE, 0, DbFails, {}) :
     \E req \in {Request(auth, id, NoBody, f)} :
     \E out \in {GetContact(contacts, req)} :
        /\ Serve("GET /api/contact/:id", req, {}, out)
        /\ contacts' = out.coll
        /\ UNCHANGED <<projects, experiences, skills, certifications, socials, users,
                       nextId, probe>>

ContactRead ==
  /\ Focus("contacts")
  /\ \E auth \in BOOLEAN :
     \E id \in IdsOf(contacts), f \in Faults(TRUE, 0, DbFails, {}) :
     \E req \in {Request(auth, id, NoBody, f)} :
     \E out \in {MarkContact(contacts, req, "isRead")} :
        /\ Serve("PUT /api/contact/:id/read", req, {}, out)
        /\ contacts' = out.coll
        /\ UNCHANGED <<projects, experiences, skills, certifications, socials, users,
                       nextId, probe>>

ContactReplied ==
  /\ Focus("contacts")
  /\ \E auth \in BOOLEAN :
     \E id \in IdsOf(contacts), f \in Faults(TRUE, 0, DbFails, {}) :
     \E req \in {Request(auth, id, NoBody, f)} :
     \E out \in {MarkContact(contacts, req, "isReplied")} :
        /\ Serve("PUT /api/contact/:id/replied", req, {}, out)
        /\ contacts' = out.coll
        /\ UNCHANGED <<projects, experiences, skills, certifications, socials, users,
                       nextId, probe>>

ContactDelete ==
  /\ Focus("contacts")
  /\ \E auth \in BOOLEAN :
     \E id \in IdsOf(contacts), f \in Faults(TRUE, 0, DbFails, {}) :
     \E req \in {Request(auth, id, NoBody, f)} :
     \E out \in {DeleteDoc(contacts, req)} :
        /\ Serve("DELETE /api/contact/:id", req, {}, out)
        /\ contacts' = out.coll
        /\ UNCHANGED <<projects, experiences, skills, certifications, socials, users,
                       nextId, probe>>

\* ---- certifications
CertificationPost ==
  /\ Focus("certifications")
  /\ nextId <= MaxDocs
  /\ \E auth \in BOOLEAN :
     \E body \in Sent(auth, CertBodies, FieldsOf), f \in Faults(auth, 1, 0..1, {}) :
     \E req \in {Request(auth, 0, body, f)} :
     \E out \in {Protect(req, certifications,
                   ProcessUpload(req, certifications, PostCertification(certifications, req, nextId)))} :
        /\ Serve("POST /api/certifications", req, FieldsOf(body), out)
        /\ certifications' = out.coll
        /\ nextId' = Created(out)
        /\ UNCHANGED <<projects, experiences, skills, socials, users, contacts, probe>>

CertificationPutOf(bodies, most, dbs, media) ==
  /\ Focus("certifications")
  /\ \E auth \in BOOLEAN :
     \E id \in IdsOf(certifications), body \in Sent(auth, bodies, FieldsOf),
        f \in Faults(auth, most, dbs, media) :
     \E req \in {Request(auth, id, body, f)} :
     \E out \in {Protect(req, certifications,
                   ProcessUpload(req, certifications, PutCertification(certifications, req)))} :
        /\ Serve("PUT /api/certifications/:id", req, FieldsOf(body), out)
        /\ certifications' = out.coll
        /\ UNCHANGED <<projects, experiences, skills, socials, users, contacts,
                       nextId, probe>>

CertificationPut == CertificationPutOf(CertBodies, 1, DbFails, Pids)

CertificationDelete ==
  /\ Focus("certifications")
  /\ \E auth \in BOOLEAN :
     \E id \in IdsOf(certifications), f \in Faults(auth, 0, DbFails, Pids) :
     \E req \in {Request(auth, id, NoBody, f)} :
     \E out \in {Protect(req, certifications, DeleteCertification(certifications, req))} :
        /\ Serve("DELETE /api/certifications/:id", req, {}, out)
        /\ certifications' = out.coll
        /\ UNCHANGED <<projects, experiences, skills, socials, users, contacts,
                       nextId, probe>>

\* ---- experiences
ExperiencePost ==
  /\ Focus("experiences")
  /\ nextId <= MaxDocs
  /\ \E auth \in BOOLEAN :
     \E body \in Sent(auth, ExperienceBodies, FieldsOf), f \in Faults(auth, 1, 0..1, {}) :
     \E req \in {Request(auth, 0, body, f)} :
     \E out \in {Protect(req, experiences,
                   ProcessUpload(req, experiences, PostExperience(experiences, req, nextId)))} :
        /\ Serve("POST /api/experiences", req, FieldsOf(body), out)
        /\ experiences' = out.coll
        /\ nextId' = Created(out)
        /\ UNCHANGED <<projects, skills, certifications, socials, users, contacts, probe>>

ExperiencePutAt(auth, id, body, f) ==
  /\ Focus("experiences")
  /\ \E req \in {Request(auth, id, body, f)} :
     \E out \in {Protect(req, experiences,
                   ProcessUpload(req, experiences, PutExperience(experiences, req)))} :
        /\ Serve("PUT /api/experiences/:id", req, FieldsOf(body), out)
        /\ experiences' = out.coll
        /\ UNCHANGED <<projects, skills, certifications, socials, users, contacts,
                       nextId, probe>>

ExperiencePutOf(bodies, most, dbs) ==
  /\ Focus("experiences")
  /\ \E auth \in BOOLEAN :
     \E id \in IdsOf(experiences), body \in Sent(auth, bodies, FieldsOf),
        f \in Faults(auth, most, dbs, {}) :
        ExperiencePutAt(auth, id, body, f)

ExperiencePut == ExperiencePutOf(ExperienceBodies, 1, DbFails)

ExperienceDelete ==
  /\ Focus("experiences")
  /\ \E auth \in BOOLEAN :
     \E id \in IdsOf(experiences), f \in Faults(auth, 0, DbFails, {}) :
     \E req \in {Request(auth, id, NoBody, f)} :
     \E out \in {Protect(req, experiences, DeleteDoc(experiences, req))} :
        /\ Serve("DELETE /api/experiences/:id", req, {}, out)
        /\ experiences' = out.coll
        /\ UNCHANGED <<projects, skills, certifications, socials, users, contacts,
                       nextId, probe>>

\* ---- projects
ProjectPostAt(auth, body, f) ==
  /\ Focus("projects")
  /\ nextId <= MaxDocs
  /\ \E req \in {Request(auth, 0, body, f)} :
     \* the chain mounts no upload middleware between protect and the validators
     \E out \in {Protect(req, projects,
                   PostProject(projects, NoMulter(req, EmptyProjectBody), nextId))} :
        /\ Serve("POST /api/projects", req, ProjectFieldsOf(body), out)
        /\ projects' = out.coll
        /\ nextId' = Created(out)
        /\ UNCHANGED <<experiences, skills, certifications, socials, users, contacts, probe>>

ProjectPostOf(bodies, dbs) ==
  /\ Focus("projects")
  /\ nextId <= MaxDocs
  /\ \E auth \in BOOLEAN :
     \E body \in Sent(auth, bodies, ProjectFieldsOf), f \in Faults(auth, 0, dbs, {}) :
        ProjectPostAt(auth, body, f)

ProjectPost == ProjectPostOf(ProjectPostBodies, 0..1)

ProjectPutAt(auth, id, body, f) ==
  /\ Focus("projects")
  /\ \E req \in {Request(auth, id, body, f)} :
     \E out \in {Protect(req, projects, ProcessUpload(req, projects, PutProject(projects, req)))} :
        /\ Serve("PUT /api/projects/:id", req, ProjectFieldsOf(body), out)
        /\ projects' = out.coll
        /\ UNCHANGED <<experiences, skills, certifications, socials, users, contacts,
                       nextId, probe>>

ProjectPutOf(bodies, most, dbs, media) ==
  /\ Focus("projects")
  /\ \E auth \in BOOLEAN :
     \E id \in IdsOf(projects), body \in Sent(auth, bodies, ProjectFieldsOf),
        f \in Faults(auth, most, dbs, media) :
        ProjectPutAt(auth, id, body, f)

ProjectPut == ProjectPutOf(ProjectPutBodies, 1, DbFails, Pids)

ProjectDelete ==
  /\ Focus("projects")
  /\ \E auth \in BOOLEAN :
     \E id \in IdsOf(projects), f \in Faults(auth, 0, DbFails, Pids) :
     \E req \in {Request(auth, id, NoBody, f)} :
     \E out \in {Protect(req, projects, DeleteProject(projects, req))} :
        /\ Serve("DELETE /api/projects/:id", req, {}, out)
        /\ projects' = out.coll
        /\ UNCHANGED <<experiences, skills, certifications, socials, users, contacts,
                       nextId, probe>>

GalleryPost ==
  /\ Focus("projects")
  /\ \E auth \in BOOLEAN :
     \E id \in IdsOf(projects), f \in Faults(auth, MaxUploads, DbFails, {}) :
     \E req \in {Request(auth, id, NoBody, f)} :
     \E out \in {Protect(req, projects, ProcessUpload(req, projects, PostGallery(projects, req)))} :
        /\ Serve("POST /api/projects/:id/gallery", req, {}, out)
        /\ projects' = out.coll
        /\ UNCHANGED <<experiences, skills, certifications, socials, users, contacts,
                       nextId, probe>>

GalleryDelete ==
  /\ Focus("projects")
  /\ \E auth \in BOOLEAN :
     \E id \in IdsOf(projects), imageId \in Pids, f \in Faults(auth, 0, DbFails, Pids) :
     \E req \in {[Request(auth, id, NoBody, f) EXCEPT !.imageId = imageId]} :
     \E out \in {Protect(req, projects, DeleteGalleryImage(projects, req))} :
        /\ Serve("DELETE /api/projects/:projectId/gallery/:imageId", req, {}, out)
        /\ projects' = out.coll
        /\ UNCHANGED <<experiences, skills, certifications, socials, users, contacts,
                       nextId, probe>>

Next ==
  \/ SkillPost \/ SkillPut \/ SkillDelete
  \/ SocialPost \/ SocialPut \/ SocialDelete
  \/ UserPut
  \/ ContactPost \/ ContactList \/ ContactGet \/ ContactRead \/ ContactReplied
  \/ ContactDelete
  \/ CertificationPost \/ CertificationPut \/ CertificationDelete
  \/ ExperiencePost \/ ExperiencePut \/ ExperienceDelete
  \/ ProjectPost \/ ProjectPut \/ ProjectDelete \/ GalleryPost \/ GalleryDelete

Spec == Init /\ [][Next]_vars

\* ------------------------------------------ the list inputs, one at a time
\* One techStack or features input is sent to POST /api/projects and to
\* PUT /api/projects/:id, every other field of the request being valid, and
\* what each route answered and stored for it is kept in probe.
NormInputs == {StrVal(s) : s \in Strings} \cup {ArrVal(<<>>), ArrVal(<<ItemA>>)}
NormFields == {"techStack", "features"}
NoFault == [files |-> 0, upFail |-> FALSE, dbFail |-> 0, failing |-> {}]
ValidList == ArrVal(<<ItemA>>)
\* a body POST /api/projects accepts
CanonicalBody == [title |-> <<"t1">>, techStack |-> ValidList, features |-> ValidList] @@ ValidRest

\* what the route answered and, when it stored the document, the list it stored
ResultOf(out, id, field) ==
  [status |-> out.sent[1],
   items |-> IF Answered2xx(out) THEN out.coll[id][field] ELSE <<>>]

InitProbing(fields, inputs) ==
  /\ projects = Empty
  /\ experiences = Empty
  /\ skills = Empty
  /\ certifications = Empty
  /\ socials = Empty
  /\ contacts = Empty
  /\ users = SeedUsers
  /\ nextId = 1
  /\ uploads = 0
  /\ alive = TRUE
  /\ resp = NoResp
  /\ probe \in [field : fields, input : inputs, post : {NoResult}, put : {NoResult}]

InitNorm == InitProbing(NormFields, NormInputs)

\* POST /api/projects with the input in the probed field
NormPost ==
  /\ projects = Empty
  /\ nextId <= MaxDocs
  /\ probe.post = NoResult
  /\ \E body \in {[CanonicalBody EXCEPT ![probe.field] = probe.input]} :
     \E req \in {Request(TRUE, 0, body, NoFault)} :
     \E out \in {Protect(req, projects, PostProject(projects, req, nextId))} :
        /\ Serve("POST /api/projects", req, ProjectFieldsOf(body), out)
        /\ projects' = out.coll
        /\ nextId' = Created(out)
        /\ probe' = [probe EXCEPT !.post = ResultOf(out, nextId, probe.field)]
        /\ UNCHANGED <<experiences, skills, certifications, socials, users, contacts>>

\* POST /api/projects with both lists given as arrays: the project the PUT updates
NormCreate ==
  /\ projects = Empty
  /\ nextId <= MaxDocs
  /\ \E body \in {CanonicalBody} :
     \E req \in {Request(TRUE, 0, body, NoFault)} :
     \E out \in {Protect(req, projects, PostProject(projects, req, nextId))} :
        /\ Serve("POST /api/projects", req, ProjectFieldsOf(body), out)
        /\ projects' = out.coll
        /\ nextId' = Created(out)
        /\ UNCHANGED <<experiences, skills, certifications, socials, users, contacts, probe>>

\* PUT /api/projects/:id with the input in the probed field and nothing else
NormPut ==
  /\ probe.put = NoResult
  /\ \E id \in DOMAIN projects :
     \E body \in {[EmptyProjectBody EXCEPT ![probe.field] = probe.input]} :
     \E req \in {Request(TRUE, id, body, NoFault)} :
     \E out \in {Protect(req, projects, ProcessUpload(req, projects, PutProject(projects, req)))} :
        /\ Serve("PUT /api/projects/:id", req, ProjectFieldsOf(body), out)
        /\ projects' = out.coll
        /\ probe' = [probe EXCEPT !.put = ResultOf(out, id, probe.field)]
        /\ UNCHANGED <<experiences, skills, certifications, socials, users, contacts, nextId>>

NextNorm == NormPost \/ NormCreate \/ NormPut

SpecNorm == InitNorm /\ [][NextNorm]_vars

\* ------------------------------------------------ the schema specification
\* Skills and projects created and updated with values inside and outside
\* the schema's ranges, update operators included, and gallery captions set.
\* An update operator is sent while it leaves the counter within LevelCap
\* or RatingCap.
LevelCap == 200
RatingCap == 9

SchemaSkillPostBodies ==
  [name : {<<"s1">>}, level : {Absent, <<0>>, <<50>>, <<101>>},
   category : {Absent, <<"Tools">>, <<"Games">>}, inc : {Absent}, isPublished : {Absent}]
SchemaSkillPutBodies ==
  {b \in [name : {Absent}, level : {Absent, <<0>>, <<50>>, <<101>>},
           category : {Absent, <<"Tools">>, <<"Games">>}, inc : {Absent, <<60>>},
           isPublished : {Absent}] :
     Has(b, "inc") => \A i \in DOMAIN skills : skills[i].level + b.inc[1] <= LevelCap}

SchemaRests ==
  [links : {Undef}, year : {Absent, <<1999>>, <<2000>>}, type : {Absent, <<"web">>, <<"game">>},
   rating : {Absent, <<5>>, <<6>>}, isFeatured : {Absent}, isPublished : {Absent},
   inc : {Absent, <<3>>}]
SchemaProjectPostBodies ==
  {[title |-> <<"t1">>, techStack |-> ValidList, features |-> ValidList] @@ r :
     r \in {x \in SchemaRests : ~Has(x, "inc")}}
SchemaProjectPutBodies ==
  {EmptyProjectBody @@ r :
     r \in {x \in SchemaRests :
              Has(x, "inc") => \A i \in DOMAIN projects :
                                  projects[i].rating + x.inc[1] <= RatingCap}}

SchemaSkillPost == SkillPostOf(SchemaSkillPostBodies, {0})
SchemaSkillPut == SkillPutOf(SchemaSkillPutBodies, {0})
SchemaProjectPost == ProjectPostOf(SchemaProjectPostBodies, {0})
SchemaProjectPut == ProjectPutOf(SchemaProjectPutBodies, 0, {0}, {})

CaptionPut ==
  /\ Focus("projects")
  /\ \E auth \in BOOLEAN :
     \E id \in IdsOf(projects), imageId \in Pids,
        body \in Sent(auth, [caption : {Absent, <<CaptionMax>>, <<CaptionMax + 1>>}], FieldsOf),
        f \in Faults(auth, 0, DbFails, {}) :
     \E req \in {[Request(auth, id, body, f) EXCEPT !.imageId = imageId]} :
     \E out \in {Protect(req, projects, PutCaption(projects, req))} :
        /\ Serve("PUT /api/projects/:projectId/gallery/:imageId", req, FieldsOf(body), out)
        /\ projects' = out.coll
        /\ UNCHANGED <<experiences, skills, certifications, socials, users, contacts,
                       nextId, probe>>

NextSchema ==
  \/ SchemaSkillPost
  \/ SchemaSkillPut
  \/ SchemaProjectPost
  \/ SchemaProjectPut
  \/ GalleryPost
  \/ CaptionPut

SpecSchema == Init /\ [][NextSchema]_vars

\* ----------------------------------------------- the routing specification
\* Express tries the routes of a router in the order of their registration
\* and runs the first whose method and path pattern match; none of the
\* handlers calls next().  A path is the sequence of its segments after the
\* router's mount point, a pattern segment that starts with ':' matches any
\* segment.
IsParam(seg) == seg \in {":id", ":projectId", ":imageId"}

Matches(pattern, path) ==
  /\ Len(pattern) = Len(path)
  /\ \A i \in 1..Len(pattern) : IsParam(pattern[i]) \/ pattern[i] = path[i]

\* the index of the route that serves the path, 0 when none matches
Dispatch(routes, path) ==
  IF \E i \in 1..Len(routes) : Matches(routes[i], path)
  THEN CHOOSE i \in 1..Len(routes) :
         Matches(routes[i], path) /\ \A j \in 1..(i - 1) : ~Matches(routes[j], path)
  ELSE 0

\* the PUT routes of skills.js, of socials.js and of projects.js, in the
\* order of their registration
OrderPutRoutes == << <<":id">>, <<"order">> >>
ProjectPutRoutes ==
  << <<":id">>, <<":projectId", "gallery", ":imageId">>, <<":id", "gallery", "reorder">> >>

\* the value of a path parameter
ParamOf(seg) ==
  IF \E n \in 0..(MaxDocs + MaxUploads) : ToString(n) = seg
  THEN CHOOSE n \in 0..(MaxDocs + MaxUploads) : ToString(n) = seg
  ELSE NotAnObjectId

\* PUT /api/skills/<path>, with a body for the order route
SkillsPutAt(path) ==
  /\ Focus("skills")
  /\ \E body \in {EmptySkillBody @@ [list |-> <<IdsOf(skills)>>]} :
     \E req \in {Request(TRUE, ParamOf(path[1]), body, NoFault)} :
     \E n \in {Dispatch(OrderPutRoutes, path)} :
     \E out \in {Protect(req, skills,
                          IF n = 1 THEN PutSkill(skills, req) ELSE PutOrder(skills, req))} :
        /\ Serve(<<"PUT /api/skills/:id", "PUT /api/skills/order">>[n], req, {}, out)
        /\ skills' = out.coll
        /\ UNCHANGED <<projects, experiences, certifications, socials, users, contacts,
                       nextId, probe>>

SkillsPutRouted ==
  \E path \in {<<ToString(id)>> : id \in IdsOf(skills)} \cup {<<"order">>} : SkillsPutAt(path)

\* PUT /api/socials/<path>
SocialsPutAt(path) ==
  /\ Focus("socials")
  /\ \E body \in {[platform |-> Absent, isActive |-> Absent, list |-> <<IdsOf(socials)>>]} :
     \E req \in {Request(TRUE, ParamOf(path[1]), body, NoFault)} :
     \E n \in {Dispatch(OrderPutRoutes, path)} :
     \E out \in {Protect(req, socials,
                          IF n = 1 THEN PutSocial(socials, req) ELSE PutOrder(socials, req))} :
        /\ Serve(<<"PUT /api/socials/:id", "PUT /api/socials/order">>[n], req, {}, out)
        /\ socials' = out.coll
        /\ UNCHANGED <<projects, experiences, skills, certifications, users, contacts,
                       nextId, probe>>

SocialsPutRouted ==
  \E path \in {<<ToString(id)>> : id \in IdsOf(socials)} \cup {<<"order">>} : SocialsPutAt(path)

\* PUT /api/projects/<path>, with the gallery's ids, reversed, as imageIds
ProjectsPutAt(path) ==
  /\ Focus("projects")
  /\ \E id \in {ParamOf(path[1])} :
     \E ids \in {IF id \in DOMAIN projects
                 THEN [i \in 1..Len(projects[id].gallery) |->
                         projects[id].gallery[Len(projects[id].gallery) + 1 - i].public_id]
                 ELSE <<>>} :
     \E body \in {EmptyProjectBody @@ [caption |-> <<0>>, imageIds |-> <<ids>>]} :
     \E req \in {[Request(TRUE, id, body, NoFault) EXCEPT
                    !.imageId = IF Len(path) = 3 THEN ParamOf(path[3]) ELSE 0]} :
     \E n \in {Dispatch(ProjectPutRoutes, path)} :
     \E out \in {Protect(req, projects,
                          CASE n = 1 -> ProcessUpload(req, projects, PutProject(projects, req))
                            [] n = 2 -> PutCaption(projects, req)
                            [] OTHER -> ReorderGallery(projects, req))} :
        /\ Serve(<<"PUT /api/projects/:id", "PUT /api/projects/:projectId/gallery/:imageId",
                    "PUT /api/projects/:id/gallery/reorder">>[n], req, {}, out)
        /\ projects' = out.coll
        /\ UNCHANGED <<experiences, skills, certifications, socials, users, contacts,
                       nextId, probe>>

ProjectsPutRouted ==
  \E id \in IdsOf(projects) :
     \E path \in {<<ToString(id)>>, <<ToString(id), "gallery", "reorder">>}
                    \cup {<<ToString(id), "gallery", ToString(pid)>> : pid \in Pids} :
        ProjectsPutAt(path)

NextRoutes ==
  \/ SkillPost
  \/ SocialPost
  \/ ProjectPost
  \/ GalleryPost
  \/ SkillsPutRouted
  \/ SocialsPutRouted
  \/ ProjectsPutRouted

SpecRoutes == Init /\ [][NextRoutes]_vars

\* ----------------------------------------------- the reorder specification
\* The gallery reorder handler run on its own, as if its route were reached.
ReorderBodies ==
  [imageIds : {Absent} \cup {<<ids>> : ids \in [1..0 -> Pids]
                                           \cup UNION {[1..k -> Pids] : k \in 1..MaxUploads}}]

GalleryReorderAt(id, body) ==
  /\ Focus("projects")
  /\ \E auth \in BOOLEAN :
     \E f \in Faults(auth, 0, DbFails, {}) :
     \E req \in {Request(auth, id, body, f)} :
     \E out \in {Protect(req, projects, ReorderGallery(projects, req))} :
        /\ Serve("PUT /api/projects/:id/gallery/reorder", req, FieldsOf(body), out)
        /\ projects' = out.coll
        /\ UNCHANGED <<experiences, skills, certifications, socials, users, contacts,
                       nextId, probe>>

GalleryReorder ==
  \E id \in IdsOf(projects), body \in ReorderBodies : GalleryReorderAt(id, body)

NextReorder == ProjectPost \/ GalleryPost \/ GalleryReorder

SpecReorder == Init /\ [][NextReorder]_vars

\* -------------------------------------------- the serverless specification
\* api/index.js: handler(req, res) awaits connectDB() and then calls
\* app(req, res).  Importing server.js has already called connectDB() once,
\* without await or catch, and has registered the unhandledRejection
\* listener that exits the process.  In this specification probe holds the
\* connection: isConnected of database.js, the state of the promise of
\* server.js's own connectDB() call, and whether the database can be reached.
Conn(isConnected, boot, reachable) ==
  [isConnected |-> isConnected, boot |-> boot, reachable |-> reachable]

InitServerless ==
  /\ projects = Empty
  /\ experiences = Empty
  /\ skills = Empty
  /\ certifications = Empty
  /\ socials = Empty
  /\ contacts = Empty
  /\ users = SeedUsers
  /\ nextId = 1
  /\ uploads = 0
  /\ alive = TRUE
  /\ resp = NoResp
  /\ probe \in {Conn(FALSE, "pending", r) : r \in BOOLEAN}

\* the database becomes unreachable: mongoose emits 'disconnected'
DbDown ==
  /\ alive
  /\ probe.reachable
  /\ probe' = [probe EXCEPT !.reachable = FALSE, !.isConnected = FALSE]
  /\ UNCHANGED <<projects, experiences, skills, certifications, socials, users, contacts,
                 nextId, uploads, alive, resp>>

DbUp ==
  /\ alive
  /\ ~probe.reachable
  /\ probe' = [probe EXCEPT !.reachable = TRUE]
  /\ UNCHANGED <<projects, experiences, skills, certifications, socials, users, contacts,
                 nextId, uploads, alive, resp>>

\* server.js: connectDB() settles.  connectDB rethrows the connection
\* error; nothing handles the rejection, so 'unhandledRejection' fires and
\* its listener calls process.exit(1).
BootSettles ==
  /\ alive
  /\ probe.boot = "pending"
  /\ probe' = IF probe.reachable
               THEN [probe EXCEPT !.boot = "resolved", !.isConnected = TRUE]
               ELSE [probe EXCEPT !.boot = "rejected", !.isConnected = FALSE]
  /\ alive' = probe.reachable
  /\ UNCHANGED <<projects, experiences, skills, certifications, socials, users, contacts,
                 nextId, uploads, resp>>

\* handler: await connectDB() when no connection is held; the catch block
\* answers 500 'Database connection failed'
AwaitConnect ==
  /\ alive
  /\ ~probe.isConnected
  /\ probe' = [probe EXCEPT !.isConnected = probe.reachable]
  /\ resp' = IF probe.reachable THEN resp
              ELSE [NoResp EXCEPT !.route = "api/index.js handler", !.sent = <<500>>]
  /\ UNCHANGED <<projects, experiences, skills, certifications, socials, users, contacts,
                 nextId, uploads, alive>>

\* handler: connectDB() has resolved, app(req, res) serves the request
AppContactPost == probe.isConnected /\ ContactPost
AppContactList == probe.isConnected /\ ContactList
AppContactRead == probe.isConnected /\ ContactRead
AppContactDelete == probe.isConnected /\ ContactDelete

NextServerless ==
  \/ DbDown
  \/ DbUp
  \/ BootSettles
  \/ AwaitConnect
  \/ AppContactPost
  \/ AppContactList
  \/ AppContactRead
  \/ AppContactDelete

SpecServerless == InitServerless /\ [][NextServerless]_vars

\* -------------------------------------------------- the users specification
\* the routes of the users router that write
AvatarPost ==
  /\ Focus("users")
  /\ \E auth \in BOOLEAN :
     \E f \in Faults(auth, 1, DbFails, Pids) :
     \E req \in {Request(auth, 0, NoBody, f)} :
     \E out \in {Protect(req, users, ProcessUpload(req, users, UploadAvatar(users, req)))} :
        /\ Serve("POST /api/users/upload-avatar", req, {}, out)
        /\ users' = out.coll
        /\ UNCHANGED <<projects, experiences, skills, certifications, socials, contacts,
                       nextId, probe>>

AvatarDelete ==
  /\ Focus("users")
  /\ \E auth \in BOOLEAN :
     \E f \in Faults(auth, 0, DbFails, Pids) :
     \E req \in {Request(auth, 0, NoBody, f)} :
     \E out \in {Protect(req, users, DeleteAvatar(users, req))} :
        /\ Serve("DELETE /api/users/delete-avatar", req, {}, out)
        /\ users' = out.coll
        /\ UNCHANGED <<projects, experiences, skills, certifications, socials, contacts,
                       nextId, probe>>

NextUsers == UserPut \/ AvatarPost \/ AvatarDelete

SpecUsers == Init /\ [][NextUsers]_vars

\* ------------------------------------------------- the links specification
\* The same three requests with the probed field links: legacy objects of
\* at most MaxLinks entries and arrays of at most MaxLinks elements.
SeqsUpTo(S, n) == UNION {[1..k -> S] : k \in 0..n}

LinkKeys == {Txt("github", FALSE), Txt("demo", FALSE), Txt("linkedin", FALSE),
             Txt("github", TRUE)}
LinkUrls == {Txt("u1", FALSE), Txt("", FALSE), Txt("u1", TRUE)}
\* the keys of a JavaScript object are distinct
LegacyObjects ==
  {ObjVal(es) : es \in {x \in SeqsUpTo([key : LinkKeys, url : LinkUrls], MaxLinks) :
                          \A i, j \in 1..Len(x) : x[i].key = x[j].key => i = j}}
LinkElements ==
  {Link(Txt("github", FALSE), Txt("u1", FALSE), <<>>),
   Link(Txt("demo", FALSE), Txt("u1", FALSE), <<"github">>),
   Link(Txt("linkedin", FALSE), Txt("u1", FALSE), <<>>),
   Link(Txt("github", TRUE), Txt("u1", FALSE), <<"globe">>)}
LinksInputs == LegacyObjects \cup {ArrVal(a) : a \in SeqsUpTo(LinkElements, MaxLinks)}

InitLinks == InitProbing({"links"}, LinksInputs)

SpecLinks == InitLinks /\ [][NextNorm]_vars

\* ------------------------------------------------- the reads specification
\* Documents are created, published and unpublished (social links activated
\* and deactivated) by PUT, projects featured and renamed, and every public
\* GET route is requested, with and without a token.
ReadsFlagBodies(core) == {core @@ [isPublished |-> flag] : flag \in FlagInputs}
ReadsExperiencePutBodies ==
  {[company |-> Absent, isPublished |-> flag, isCurrent |-> Absent] : flag \in FlagInputs}

ReadsSkillPutBodies ==
  {[EmptySkillBody EXCEPT !.isPublished = flag, !.category = category] :
     flag \in FlagInputs, category \in {Absent, <<"Tools">>}}
ReadsProjectPutBodies ==
  {[EmptyProjectBody EXCEPT !.isPublished = flag, !.isFeatured = featured, !.title = title] :
     flag \in FlagInputs, featured \in {Absent, <<[json |-> FALSE, val |-> TRUE]>>},
     title \in {Absent, <<"t2">>}}

ReadsSkillPut == SkillPutOf(ReadsSkillPutBodies, {0})
ReadsCertificationPut ==
  CertificationPutOf(ReadsFlagBodies([title |-> Absent]), 0, {0}, {})
ReadsExperiencePut ==
  ExperiencePutOf(ReadsExperiencePutBodies, 0, {0})
ReadsProjectPut == ProjectPutOf(ReadsProjectPutBodies, 0, {0}, {})

\* a public route: no protect in its chain, and no write
Read(c, route, req, out) ==
  /\ Focus(c)
  /\ Serve(route, req, {}, out)
  /\ UNCHANGED <<projects, experiences, skills, certifications, socials, users, contacts,
                 nextId, probe>>

ReadRequests(ids, queries) ==
  {[Request(auth, id, NoBody, [NoFault EXCEPT !.dbFail = db]) EXCEPT !.query = q] :
     auth \in BOOLEAN, id \in ids, db \in 0..1, q \in queries}

SkillsList ==
  \E req \in ReadRequests({0}, {NoQuery}) :
     Read("skills", "GET /api/skills", req, GetList(skills, req, "isPublished"))
SkillsByCategory ==
  \E req \in ReadRequests({0}, {[NoQuery EXCEPT !.category = c] : c \in {"Tools", "Other"}}) :
     Read("skills", "GET /api/skills/category/:category", req, GetSkillsByCategory(skills, req))
SkillGet ==
  \E req \in ReadRequests(IdsOf(skills) \cup {NotAnObjectId}, {NoQuery}) :
     Read("skills", "GET /api/skills/:id", req, GetById(skills, req, "isPublished"))
SocialsList ==
  \E req \in ReadRequests({0}, {NoQuery}) :
     Read("socials", "GET /api/socials", req, GetList(socials, req, "isActive"))
SocialGet ==
  \E req \in ReadRequests(IdsOf(socials) \cup {NotAnObjectId}, {NoQuery}) :
     Read("socials", "GET /api/socials/:id", req, GetById(socials, req, "isActive"))
CertificationsList ==
  \E req \in ReadRequests({0}, {NoQuery}) :
     Read("certifications", "GET /api/certifications", req,
          GetList(certifications, req, "isPublished"))
CertificationGet ==
  \E req \in ReadRequests(IdsOf(certifications) \cup {NotAnObjectId}, {NoQuery}) :
     Read("certifications", "GET /api/certifications/:id", req,
          GetById(certifications, req, "isPublished"))
ExperiencesList ==
  \E req \in ReadRequests({0}, {NoQuery}) :
     Read("experiences", "GET /api/experiences", req, GetList(experiences, req, "isPublished"))
ExperienceGet ==
  \E req \in ReadRequests(IdsOf(experiences) \cup {NotAnObjectId}, {NoQuery}) :
     Read("experiences", "GET /api/experiences/:id", req,
          GetById(experiences, req, "isPublished"))
ProjectsList ==
  \E req \in ReadRequests({0}, {[NoQuery EXCEPT !.featured = b] : b \in BOOLEAN}) :
     Read("projects", "GET /api/projects", req, GetProjects(projects, req))
ProjectsFeatured ==
  \E req \in ReadRequests({0}, {NoQuery}) :
     Read("projects", "GET /api/projects/featured", req, GetFeatured(projects, req))
ProjectGetById ==
  \E req \in ReadRequests(IdsOf(projects) \cup {NotAnObjectId}, {NoQuery}) :
     Read("projects", "GET /api/projects/id/:id", req, GetById(projects, req, "isPublished"))
ProjectGetBySlug ==
  \E req \in ReadRequests({0}, {[NoQuery EXCEPT !.slug = t] : t \in {"t1", "t2"}}) :
     Read("projects", "GET /api/projects/:slug", req, GetProjectBySlug(projects, req))

NextReads ==
  \/ SkillPost \/ ReadsSkillPut \/ SkillsList \/ SkillsByCategory \/ SkillGet
  \/ SocialPost \/ SocialPut \/ SocialsList \/ SocialGet
  \/ CertificationPost \/ ReadsCertificationPut \/ CertificationsList \/ CertificationGet
  \/ ExperiencePost \/ ReadsExperiencePut \/ ExperiencesList \/ ExperienceGet
  \/ ProjectPost \/ ReadsProjectPut
  \/ ProjectsList \/ ProjectsFeatured \/ ProjectGetById \/ ProjectGetBySlug

SpecReads == Init /\ [][NextReads]_vars

\* ------------------------------------------------- the flags specification
\* Social links, projects and experiences are created, and their boolean
\* flag is sent by PUT as a JSON boolean and as a string.
FlagsSocialBody(flag) == [platform |-> Absent, isActive |-> flag]
FlagsProjectBody(flag) == [EmptyProjectBody EXCEPT !.isFeatured = flag]
FlagsExperienceBody(flag) == [company |-> Absent, isPublished |-> Absent, isCurrent |-> flag]

FlagsSocialPut == SocialPutOf({FlagsSocialBody(flag) : flag \in FlagInputs}, {0})
FlagsProjectPut == ProjectPutOf({FlagsProjectBody(flag) : flag \in FlagInputs}, 0, {0}, {})
FlagsExperiencePut ==
  ExperiencePutOf({FlagsExperienceBody(flag) : flag \in FlagInputs}, 0, {0})

NextFlags ==
  \/ SocialPost \/ FlagsSocialPut
  \/ ProjectPost \/ FlagsProjectPut
  \/ ExperiencePost \/ FlagsExperiencePut

SpecFlags == Init /\ [][NextFlags]_vars

\* ------------------------------------------------- the cover specification
\* Projects are created by requests with and without a cover file, given
\* a cover by PUT, and deleted.
CoverBodies == {CanonicalBody, EmptyProjectBody}
CoverFaults == {[NoFault EXCEPT !.files = n] : n \in FileCounts(1)}

CoverPost ==
  \E auth \in BOOLEAN :
  \E body \in Sent(auth, CoverBodies, ProjectFieldsOf),
     f \in IF auth THEN CoverFaults ELSE {NoFault} :
     ProjectPostAt(auth, body, f)

CoverPut == ProjectPutOf({EmptyProjectBody, [EmptyProjectBody EXCEPT !.title = <<"t2">>]},
                         1, {0}, {})

NextCover == CoverPost \/ CoverPut \/ ProjectDelete

SpecCover == Init /\ [][NextCover]_vars

\* ================================================================ properties
\* the collection a PUT /:id route updates
PutOf(route) ==
  CASE route = "PUT /api/projects/:id" -> "projects"
    [] route = "PUT /api/experiences/:id" -> "experiences"
    [] route = "PUT /api/skills/:id" -> "skills"
    [] route = "PUT /api/certifications/:id" -> "certifications"
    [] route = "PUT /api/socials/:id" -> "socials"
    [] route = "PUT /api/users/:id" -> "users"
    [] OTHER -> "none"

\* the collection a DELETE /:id route of an entity with images deletes from
DeleteOf(route) ==
  CASE route = "DELETE /api/projects/:id" -> "projects"
    [] route = "DELETE /api/certifications/:id" -> "certifications"
    [] route = "DELETE /api/experiences/:id" -> "experiences"
    [] OTHER -> "none"

\* the fields that hold an externally hosted image
ImageFields == {"cover", "logo", "icon"}

\* the public_ids a document references
MediaOf(c, doc) ==
  CASE c = "projects" -> ({doc.cover} \cup GalleryIds(doc)) \ {0}
    [] c = "certifications" -> {doc.logo} \ {0}
    [] c = "experiences" -> {doc.icon} \ {0}
    [] OTHER -> {}

\* C1: a request without a valid token leaves every stored document as it
\* was: no document of any collection is changed or removed by the step
\* that serves it.
C1_NoTokenNoWrite ==
  [][~resp'.auth =>
       \A c \in StoreNames : \A i \in DOMAIN Store(c) :
          i \in DOMAIN Store(c)' /\ Store(c)'[i] = Store(c)[i]]_vars

\* an existing contact message deleted by a request without a token
C1_Reached ==
  /\ resp.route = "DELETE /api/contact/:id"
  /\ ~resp.auth
  /\ resp.sent = <<200>>
  /\ contacts = Empty

\* C2: GET /api/contact and GET /api/contact/:id return contact message
\* data only to a request that carries a valid token.
C2_ContactReadsNeedToken ==
  (resp.route \in {"GET /api/contact", "GET /api/contact/:id"} /\ resp.data > 0)
     => resp.auth

\* the message list returned to a request without a token
C2_Reached ==
  resp.route = "GET /api/contact" /\ ~resp.auth /\ resp.sent = <<200>> /\ resp.data > 0

\* C3: a request answered 400 for its body has caused no upload to the
\* media host.
C3_RejectedBeforeUpload == resp.sent = <<400>> => resp.uploaded = 0

\* a certification request rejected for its title after its logo was uploaded
C3_Reached ==
  /\ resp.route = "POST /api/certifications"
  /\ resp.sent = <<400>>
  /\ resp.uploaded = 1
  /\ certifications = Empty

C5_DeleteDespiteMediaFailure ==
  (DeleteOf(resp.route) \in {"projects", "certifications"} /\ resp.failed # {})
     => (resp.sent = <<200>> /\ resp.id \notin DOMAIN Store(DeleteOf(resp.route)))

\* a project deleted although the deletions of its cover and of its gallery
\* image were both refused
C5_Reached ==
  /\ resp.route = "DELETE /api/projects/:id"
  /\ Cardinality(resp.failed) = 2
  /\ resp.sent = <<200>>
  /\ projects = Empty

\* C6: a DELETE answered 200 on a project, certification or experience has
\* attempted the deletion, on the media host, of every image the deleted
\* document referenced.
C6_DeleteTriesEveryImage ==
  [][\A c \in StoreNames :
       (DeleteOf(resp'.route) = c /\ resp'.sent = <<200>> /\ resp'.id \in DOMAIN Store(c))
          => MediaOf(c, Store(c)[resp'.id]) \subseteq resp'.tried]_vars

\* an experience deleted, one upload made, and no deletion attempted
C6_Reached ==
  /\ resp.route = "DELETE /api/experiences/:id"
  /\ resp.sent = <<200>>
  /\ resp.tried = {}
  /\ uploads = 1
  /\ experiences = Empty

CommaString(v) == v.t = "str" /\ ~JsonParse(v.s).ok

\* the sub-document expected for one item of a comma-separated list
ExpectedItem(item) == [key |-> KeyOf(item), label |-> item]

\* C8: POST /api/projects with a comma-separated techStack that passes
\* validation stores one entry per item the validator counted, in order,
\* its name the item without surrounding brackets or quotes and its key the
\* lower-cased name with every run of whitespace replaced by '-'.
C8_PostStoresCleanTechStack ==
  (probe.field = "techStack" /\ CommaString(probe.input)
     /\ probe.post.status \notin {0, 400})
     => /\ probe.post.status = 201
        /\ probe.post.items = MapSeq(ExpectedItem, CleanItems(probe.input.s))

\* a quoted techStack item stored with its quotes
C8_Reached ==
  /\ probe.field = "techStack"
  /\ probe.input = StrVal(<<"'", "a", "'">>)
  /\ probe.post.status = 201
  /\ probe.post.items = <<[key |-> <<"'", "a", "'">>, label |-> <<"'", "a", "'">>]>>

\* C9: POST /api/projects with a comma-separated features string that
\* passes validation answers 201 and stores one feature per non-empty
\* trimmed item, in order, each with its key and its title.
C9_PostStoresFeatures ==
  (probe.field = "features" /\ CommaString(probe.input)
     /\ probe.post.status \notin {0, 400})
     => /\ probe.post.status = 201
        /\ probe.post.items = MapSeq(ExpectedItem, PlainItems(probe.input.s))

\* a two-item features string answered 500, nothing stored
C9_Reached ==
  /\ probe.field = "features"
  /\ probe.input = StrVal(<<"a", ",", "B">>)
  /\ probe.post.status = 500
  /\ projects = Empty

\* C10: POST /api/projects and PUT /api/projects/:id, given the same
\* techStack or features input and both storing it, store the same
\* sequence of items, with the same key and the same name or title.
C10_PostPutStoreSame ==
  (probe.post.status = 201 /\ probe.put.status = 200)
     => probe.post.items = probe.put.items

\* one input stored by both routes, differently
C10_Reached ==
  /\ probe.post.status = 201
  /\ probe.put.status = 200
  /\ probe.post.items # probe.put.items

\* the link expected for one entry of a legacy object
ExpectedLink(entry) ==
  [key |-> entry.key, url |-> entry.url,
   icon |-> IF entry.key.s = "github" THEN "github" ELSE "external-link"]

\* the link expected for one element of a links array
ExpectedElement(link) ==
  [key |-> link.key, url |-> link.url,
   icon |-> IF link.icon = <<>> THEN "external-link" ELSE link.icon[1]]

ExpectedLinks(input) ==
  IF input.t = "obj" THEN MapSeq(ExpectedLink, input.a) ELSE MapSeq(ExpectedElement, input.a)

\* every key is of the schema's enum, every url is non-empty, and no white
\* space surrounds either
SchemaLinks(input) ==
  \A i \in 1..Len(input.a) :
     /\ input.a[i].key.s \in LinkKeyEnum /\ ~input.a[i].key.pad
     /\ input.a[i].url.s # "" /\ ~input.a[i].url.pad

C12_SchemaConstraints ==
  /\ \A i \in DOMAIN skills :
        LevelValid(skills[i].level) /\ skills[i].category \in SkillCategories
  /\ \A i \in DOMAIN projects :
        /\ YearValid(projects[i].year)
        /\ projects[i].type \in ProjectTypes
        /\ RatingValid(projects[i].rating)
        /\ \A k \in 1..Len(projects[i].gallery) : projects[i].gallery[k].caption <= CaptionMax

\* a skill of level 110 after a PUT answered 200
C12_Reached ==
  /\ resp.route = "PUT /api/skills/:id"
  /\ resp.sent = <<200>>
  /\ resp.id \in DOMAIN skills
  /\ skills[resp.id].level = 110

\* a list supplied empty: an empty array, an empty JSON array, or a string
\* with no items
SuppliedEmpty(v) ==
  \/ v.t = "arr" /\ v.a = <<>>
  \/ v.t = "str" /\ JsonParse(v.s).ok /\ JsonParse(v.s).len = 0
  \/ v.t = "str" /\ ~JsonParse(v.s).ok /\ CleanItems(v.s) = <<>>

\* C13: every stored project has at least one techStack entry and at least
\* one feature, and a POST or PUT whose techStack or features is supplied
\* empty is answered 400.
C13_EmptyListRejected ==
  /\ \A i \in DOMAIN projects :
        Len(projects[i].techStack) >= 1 /\ Len(projects[i].features) >= 1
  /\ SuppliedEmpty(probe.input)
       => (probe.post.status \in {0, 400} /\ probe.put.status \in {0, 400})

\* a POST with techStack [] answered 201, the project stored without techStack
C13_Reached ==
  /\ probe.field = "techStack"
  /\ probe.input = ArrVal(<<>>)
  /\ probe.post.status = 201
  /\ resp.route = "POST /api/projects"
  /\ projects[1].techStack = <<>>

\* C14: a PUT request to /api/skills/order, to /api/socials/order or to
\* /api/projects/:id/gallery/reorder is served by the handler registered for
\* that route.
C14_OrderRoutesDispatched ==
  [][/\ SkillsPutAt(<<"order">>) => resp'.route = "PUT /api/skills/order"
     /\ SocialsPutAt(<<"order">>) => resp'.route = "PUT /api/socials/order"
     /\ \A id \in IdsOf(projects) :
          ProjectsPutAt(<<ToString(id), "gallery", "reorder">>)
             => resp'.route = "PUT /api/projects/:id/gallery/reorder"]_vars

\* PUT /api/projects/:id/gallery/reorder answered 404 by the caption route:
\* the project exists and its gallery holds every image of the media host, so
\* the image the route did not find is 'reorder'
C14_Reached ==
  /\ resp.route = "PUT /api/projects/:projectId/gallery/:imageId"
  /\ resp.sent = <<404>>
  /\ resp.id \in DOMAIN projects
  /\ GalleryIds(projects[resp.id]) = Pids

\* the number of times x occurs in seq
Count(seq, x) == Cardinality({i \in 1..Len(seq) : seq[i] = x})

IsPermutation(a, b) ==
  Len(a) = Len(b) /\ \A i \in 1..Len(b) : Count(a, b[i]) = Count(b, b[i])

\* C15: after a gallery reorder answered 200 the stored gallery is a
\* permutation of the gallery stored before, and the listed images that the
\* gallery holds come in the order given.
C15_ReorderPermutes ==
  [][\A id \in DOMAIN projects, body \in ReorderBodies :
       (GalleryReorderAt(id, body) /\ resp'.sent = <<200>>)
          => /\ IsPermutation(projects'[id].gallery, projects[id].gallery)
             /\ LET listed(g) == \E k \in 1..Len(body.imageIds[1]) :
                                    body.imageIds[1][k] = g.public_id
                     held(x) == x \in GalleryIds(projects[id])
                 IN  MapSeq(LAMBDA g : g.public_id,
                            SelectSeq(projects'[id].gallery, listed))
                       = SelectSeq(body.imageIds[1], held)]_vars

\* a gallery of two images emptied by a reorder answered 200
C15_Reached ==
  /\ resp.route = "PUT /api/projects/:id/gallery/reorder"
  /\ resp.sent = <<200>>
  /\ resp.id \in DOMAIN projects
  /\ projects[resp.id].gallery = <<>>
  /\ uploads = MaxUploads

\* C16: in the serverless entry point the Express app serves a request only
\* once connectDB has resolved, a request that finds the database
\* unreachable is answered 500, and the process stays alive.
C16_ServerlessEntry ==
  [][/\ (resp' # resp /\ resp'.route # "api/index.js handler") => probe.isConnected
     /\ (AwaitConnect /\ ~probe.reachable) => resp'.sent = <<500>>
     /\ alive']_vars

\* the process has exited on the rejection of server.js's connectDB() call,
\* after a request was answered 500
C16_Reached ==
  /\ ~alive
  /\ probe.boot = "rejected"
  /\ resp.route = "api/index.js handler"
  /\ resp.sent = <<500>>

\* C17: a valid POST /api/contact that the store accepts is stored as
\* exactly one Contact document and answered 201, with the notification
\* email skipped or failing; an invalid one is answered 400 and stores
\* nothing.
C17_ContactStoredDespiteEmail ==
  [][\A body \in ContactBodies, f \in Faults(TRUE, 0, 0..1, {}), email \in EmailStates :
       ContactPostAt(body, f, email)
          => IF ~NonEmptyField(body, "name")
             THEN resp'.sent = <<400>> /\ contacts' = contacts
             ELSE f.dbFail = 0
                    => /\ resp'.sent = <<201>>
                       /\ DOMAIN contacts' = DOMAIN contacts \cup {nextId}
                       /\ nextId \notin DOMAIN contacts
                       /\ contacts'[nextId].name = body.name[1]
                       /\ \A i \in DOMAIN contacts : contacts'[i] = contacts[i]]_vars

\* a contact message stored and answered 201 although the email block threw
C17_Reached ==
  /\ resp.route = "POST /api/contact"
  /\ resp.sent = <<201>>
  /\ resp.mail = "throws"
  /\ DOMAIN contacts = {1}
  /\ contacts[1].name = "c1"

PublicReads ==
  {"GET /api/projects", "GET /api/projects/featured", "GET /api/projects/id/:id",
   "GET /api/projects/:slug", "GET /api/experiences", "GET /api/experiences/:id",
   "GET /api/skills", "GET /api/skills/category/:category", "GET /api/skills/:id",
   "GET /api/certifications", "GET /api/certifications/:id",
   "GET /api/socials", "GET /api/socials/:id"}
FlagOf(route) ==
  IF route \in {"GET /api/socials", "GET /api/socials/:id"} THEN "isActive" ELSE "isPublished"
\* the collection a by-id read looks the document up in
ByIdOf(route) ==
  CASE route = "GET /api/projects/id/:id" -> projects
    [] route = "GET /api/experiences/:id" -> experiences
    [] route = "GET /api/skills/:id" -> skills
    [] route = "GET /api/certifications/:id" -> certifications
    [] route = "GET /api/socials/:id" -> socials
    [] OTHER -> Empty

\* C19: every document a public read returns has its flag true (isPublished,
\* or isActive for a social link), and a by-id or by-slug request for a
\* document whose flag is false is answered 404.  Requests during which
\* the document store fails are answered 500 and left out of the second part.
C19_PublicReadsFiltered ==
  resp.route \in PublicReads =>
    /\ \A doc \in resp.docs : doc[FlagOf(resp.route)]
    /\ \A id \in DOMAIN ByIdOf(resp.route) :
          (id = resp.id /\ ~ByIdOf(resp.route)[id][FlagOf(resp.route)] /\ ~resp.threw)
             => (resp.sent = <<404>> /\ resp.docs = {})
    /\ (/\ resp.route = "GET /api/projects/:slug"
        /\ ~resp.threw
        /\ \E i \in DOMAIN projects : projects[i].slug = resp.query.slug
        /\ \A i \in DOMAIN projects :
              projects[i].slug = resp.query.slug => ~projects[i].isPublished)
          => (resp.sent = <<404>> /\ resp.docs = {})

\* a project created as t1, renamed and unpublished by PUT, then requested
\* by its slug and answered 404
C19_Reached ==
  /\ resp.route = "GET /api/projects/:slug"
  /\ resp.sent = <<404>>
  /\ resp.query.slug = "t1"
  /\ \E i \in DOMAIN projects :
        /\ projects[i].slug = "t1"
        /\ projects[i].title = "t2"
        /\ ~projects[i].isPublished

\* C20: a PUT that supplies isActive (social link), isFeatured (project) or
\* isCurrent (experience) as the JSON boolean true or the string 'true' is
\* answered 200 and stores the flag as true; supplied as false or 'false',
\* it stores the flag as false.
C20_FlagStoredAsSupplied ==
  [][\A b \in BoolInputs :
       /\ \A id \in DOMAIN socials :
             SocialPutAt(TRUE, id, FlagsSocialBody(<<b>>), NoFault)
                => (resp'.sent = <<200>> /\ socials'[id].isActive = b.val)
       /\ \A id \in DOMAIN projects :
             ProjectPutAt(TRUE, id, FlagsProjectBody(<<b>>), NoFault)
                => (resp'.sent = <<200>> /\ projects'[id].isFeatured = b.val)
       /\ \A id \in DOMAIN experiences :
             ExperiencePutAt(TRUE, id, FlagsExperienceBody(<<b>>), NoFault)
                => (resp'.sent = <<200>> /\ experiences'[id].isCurrent = b.val)]_vars

\* C21: an authenticated POST /api/projects with a body the validators
\* accept creates the project; sent with a cover file, the project's cover
\* is the image the media host returned for that file, and sent without a
\* file, the project has no cover.
C21_CoverStoredOnCreate ==
  [][\A f \in CoverFaults :
       ProjectPostAt(TRUE, CanonicalBody, f)
          => /\ resp'.sent = <<201>>
             /\ nextId \in DOMAIN projects'
             /\ resp'.uploaded = f.files
             /\ projects'[nextId].cover = IF f.files = 1 THEN uploads + 1 ELSE 0]_vars

====
